---------------------------- MODULE Spec2Model ----------------------------
(***************************************************************************)
(* Claris Writing Assist backend: the graphic classifier and router        *)
(* (engines/image_router.py), the submit / regenerate handlers (main.py)   *)
(* and the URL fetch retry loop (engines/web_research.py).                 *)
(*                                                                         *)
(* Text is modelled as TLA+ strings, handled as character sequences        *)
(* (Len, SubSeq, \o).  External services (language model, image and video  *)
(* APIs, HTTP) are nondeterministic: every outcome the call can have is    *)
(* an input of the action that makes the call.                             *)
(***************************************************************************)
EXTENDS Integers, Sequences, FiniteSets, TLC

VARIABLES
    description,    \* classify_graphic_type: the argument
    category,       \* classify_graphic_type: the returned category
    gg,             \* generate_graphic: the last call (arguments, trace, result)
    db,             \* the submissions table
    genLog,         \* per submission: the generate_graphic calls made for it
    http,           \* the last HTTP response of the API layer
    fetchPc,        \* _fetch_with_retry: position in the loop
    attempt,        \* _fetch_with_retry: loop variable
    trace,          \* _fetch_with_retry: requests made and delays taken
    fetched,        \* _fetch_with_retry: the returned value
    wr,             \* process_research_urls: the loop over the URLs and its results
    wd,             \* draft_linkedin_post: the model calls made and the returned text
    veo,            \* generate_veo_video: the polling loop
    ex,             \* fetch_url_content: the parsed page and the extracted content
    plt             \* matplotlib.pyplot: the open figures, and generate_chart's position

vars == << description, category, gg, db, genLog, http,
           fetchPc, attempt, trace, fetched, wr, wd, veo, ex, plt >>

classifyVars == << description, category >>
routerVars   == << gg >>
apiVars      == << db, genLog, http >>
fetchVars    == << fetchPc, attempt, trace, fetched >>
researchVars == << wr >>
writingVars  == << wd >>
veoVars      == << veo >>
extractVars  == << ex >>
chartVars    == << plt >>

\* Python's None
None == "<None>"

Range(s) == { s[i] : i \in DOMAIN s }

(***************************************************************************)
(* Text                                                                    *)
(***************************************************************************)
UpperLetters == "ABCDEFGHIJKLMNOPQRSTUVWXYZ"
LowerLetters == "abcdefghijklmnopqrstuvwxyz"

LowerOf ==
    [c \in { SubSeq(UpperLetters, i, i) : i \in 1..Len(UpperLetters) } |->
        LET i == CHOOSE j \in 1..Len(UpperLetters) : SubSeq(UpperLetters, j, j) = c
        IN  SubSeq(LowerLetters, i, i)]

\* str.lower() on one character
LowerChar(c) == IF c \in DOMAIN LowerOf THEN LowerOf[c] ELSE c

\* the text taken as it was typed
Lower_as_typed(s) == s

\* str.lower()
RECURSIVE Lower(_)
Lower(s) ==
    IF Len(s) = 0 THEN ""
    ELSE LowerChar(SubSeq(s, 1, 1)) \o Lower(SubSeq(s, 2, Len(s)))

\* Python's `k in s` on strings
IsSubstring(k, s) ==
    \E i \in 1..(Len(s) - Len(k) + 1) : SubSeq(s, i, i + Len(k) - 1) = k

\* str.strip() leaves something
RECURSIVE NonBlank(_)
NonBlank(s) ==
    IF Len(s) = 0 THEN FALSE
    ELSE IF SubSeq(s, 1, 1) \in {" ", "\n", "\t"} THEN NonBlank(SubSeq(s, 2, Len(s)))
    ELSE TRUE

(***************************************************************************)
(* classify_graphic_type                                                   *)
(***************************************************************************)
\* image_router.py lines 48-51
video_keywords ==
    << "video", "animation", "animated", "motion graphics", "moving",
       "clip", "footage", "movie" >>

\* image_router.py lines 57-62
infographic_keywords ==
    << "infographic", "stats", "statistics visualization",
       "data visualization with text", "text-heavy",
       "diagram with text", "comparison chart with labels",
       "data summary", "key metrics", "stat card", "data card",
       "metrics dashboard" >>

\* image_router.py lines 69-76
chart_keywords ==
    << "bar chart", "line chart", "pie chart", "area chart",
       "histogram", "scatter plot", "scatter chart", "column chart",
       "stacked chart", "donut chart", "bar graph", "line graph",
       "pie graph", "data visualization chart", "chart showing data",
       "graph of", "chart of" >>

\* image_router.py lines 82-88
diagram_keywords ==
    << "venn diagram", "flowchart", "flow chart", "flow diagram",
       "process diagram", "org chart", "organization chart",
       "architecture diagram", "network diagram", "system diagram",
       "sequence diagram", "state diagram", "er diagram",
       "uml diagram", "block diagram" >>

\* any(keyword in desc_lower for keyword in keywords), scanning from index i
RECURSIVE AnyKeywordIn(_, _, _)
AnyKeywordIn(keywords, i, desc_lower) ==
    IF i > Len(keywords) THEN FALSE
    ELSE IF IsSubstring(keywords[i], desc_lower) THEN TRUE
    ELSE AnyKeywordIn(keywords, i + 1, desc_lower)

\* a slip in the order of the checks: chart keywords tested before the
\* video and infographic ones
classify_chart_first(d) ==
    LET desc_lower == Lower(d) IN
    IF AnyKeywordIn(chart_keywords, 1, desc_lower) THEN "chart"
    ELSE IF AnyKeywordIn(video_keywords, 1, desc_lower) THEN "video"
    ELSE IF AnyKeywordIn(infographic_keywords, 1, desc_lower) THEN "infographic"
    ELSE IF AnyKeywordIn(diagram_keywords, 1, desc_lower) THEN "diagram"
    ELSE "conceptual"

classify_graphic_type(d) ==
    LET desc_lower == Lower(d) IN
    IF AnyKeywordIn(video_keywords, 1, desc_lower) THEN "video"
    ELSE IF AnyKeywordIn(infographic_keywords, 1, desc_lower) THEN "infographic"
    ELSE IF AnyKeywordIn(chart_keywords, 1, desc_lower) THEN "chart"
    ELSE IF AnyKeywordIn(diagram_keywords, 1, desc_lower) THEN "diagram"
    ELSE "conceptual"

\* ---- inputs of the classifier ----
MaxFrags == 2

Fragments ==
    { "Video", "eclipse", "STATS", "Bar Chart", "bar ", "chart of",
      "Flowchart", "Infographic", "warehouse", "Venn Diagram", " " }

RECURSIVE Concats(_)
Concats(n) ==
    IF n = 0 THEN { "" }
    ELSE Concats(n - 1) \cup { a \o b : a \in Concats(n - 1), b \in Fragments }

Descriptions == Concats(MaxFrags)

(***************************************************************************)
(* Values handed to the router                                             *)
(***************************************************************************)
\* research_data: None, or a list of ResearchResult records
NoResearch == [given |-> FALSE, results |-> << >>]
Research(rs) == [given |-> TRUE, results |-> rs]

\* Python truthiness of a list-or-None
TruthyList(rd) == rd.given /\ Len(rd.results) > 0

\* Python truthiness of a str-or-None
TruthyStr(s) == s # None /\ s # ""

Fact(text, type) == [fact |-> text, type |-> type]

Result(name, err, facts) ==
    [source_name |-> name, error |-> err, extracted_facts |-> facts]

R_stat    == Result("mckinsey.com", FALSE,
                    << Fact("Stockouts fell 23%", "statistic"),
                       Fact("We saw it coming", "quote") >>)
R_trend   == Result("gartner.com", FALSE, << Fact("Nearshoring is rising", "trend") >>)
R_quote   == Result("hbr.org", FALSE, << Fact("Inventory is a liability", "quote") >>)
R_nofact  == Result("hbr.org", FALSE, << Fact("", "finding") >>)
R_failed  == Result("x", TRUE, << >>)
R_errfact == Result("x", TRUE, << Fact("Costs rose 4%", "statistic") >>)

ResearchInputs ==
    { NoResearch, Research(<< >>), Research(<< R_stat >>), Research(<< R_quote >>),
      Research(<< R_nofact >>), Research(<< R_failed >>), Research(<< R_errfact >>),
      Research(<< R_failed, R_trend >>) }

\* ---- chart_data: a JSON string from the form, or None ----
Missing == [t |-> "missing", v |-> ""]      \* key absent: dict.get gives None
JStr(s) == [t |-> "str", v |-> s]
JNum(s) == [t |-> "num", v |-> s]

JDict(dp, sv, ev, tp) ==
    [t |-> "dict", dataPoints |-> dp, startValue |-> sv, endValue |-> ev, timePeriod |-> tp]
JOther(kind) ==
    [t |-> kind, dataPoints |-> Missing, startValue |-> Missing,
     endValue |-> Missing, timePeriod |-> Missing]

CD_points   == "{\"dataPoints\": \"Q1: 100, Q2: 120\"}"
CD_blankpts == "{\"startValue\": \"100\", \"endValue\": \"150\", \"timePeriod\": \"6 months\", \"dataPoints\": \"  \"}"
CD_startend == "{\"startValue\": \"100\", \"endValue\": \"150\", \"timePeriod\": \"\", \"dataPoints\": \"\"}"
CD_noend    == "{\"startValue\": \"100\", \"endValue\": \"\", \"timePeriod\": \"6 months\", \"dataPoints\": \"\"}"
CD_zero     == "{\"startValue\": 0, \"endValue\": 150}"
CD_numpts   == "{\"dataPoints\": 5}"
CD_empty    == "{}"
CD_list     == "[1, 2]"
CD_text     == "Q1: 100, Q2: 120"

ChartDataInputs ==
    { None, "", CD_points, CD_blankpts, CD_startend, CD_noend, CD_zero,
      CD_numpts, CD_empty, CD_list, CD_text }

\* json.loads on the strings above
json_loads(s) ==
    CASE s = CD_points   -> JDict(JStr("Q1: 100, Q2: 120"), Missing, Missing, Missing)
      [] s = CD_blankpts -> JDict(JStr("  "), JStr("100"), JStr("150"), JStr("6 months"))
      [] s = CD_startend -> JDict(JStr(""), JStr("100"), JStr("150"), JStr(""))
      [] s = CD_noend    -> JDict(JStr(""), JStr("100"), JStr(""), JStr("6 months"))
      [] s = CD_zero     -> JDict(Missing, JNum("0"), JNum("150"), Missing)
      [] s = CD_numpts   -> JDict(JNum("5"), Missing, Missing, Missing)
      [] s = CD_empty    -> JDict(Missing, Missing, Missing, Missing)
      [] s = CD_list     -> JOther("list")
      [] OTHER           -> JOther("JSONDecodeError")

\* Python truthiness of a JSON value
Truthy(j) ==
    CASE j.t = "str" -> j.v # ""
      [] j.t = "num" -> j.v # "0"
      [] OTHER       -> FALSE

\* ---- requested graphic_type ----
GraphicTypeInputs ==
    { None, "", "auto", "none", "chart", "diagram", "conceptual", "concept",
      "infographic", "video", "Auto", "photo" }

RouterDescriptions ==
    { "Bar chart of sales", "Warehouse at dusk", "Animated infographic",
      "STATS overview", "Flowchart of returns" }

(***************************************************************************)
(* Backends.  A backend operator gives the set of runs the call can have:  *)
(* one run per outcome of the external services it uses.  A run is the     *)
(* list of backend calls made, the chart prompt (if one was built) and the *)
(* value returned, or the exception raised, to the caller.                 *)
(***************************************************************************)
Raise(exc) == "raise " \o exc
Raised(r) == Len(r) >= 6 /\ SubSeq(r, 1, 6) = "raise "
IsDataURI(r) == Len(r) >= 5 /\ SubSeq(r, 1, 5) = "data:"

ChartURI  == "data:image/png;base64,<matplotlib figure>"
DalleURI  == "data:image/png;base64,<dall-e image>"
ImagenURI == "data:image/png;base64,<imagen image>"
VeoURI    == "data:video/mp4;base64,<veo video>"

NoPrompt == [built |-> FALSE, description |-> "", data_instruction |-> "",
             has_real_data |-> FALSE, subtitle_instruction |-> ""]

Call(backend, d, rd, outcome) ==
    [backend |-> backend, description |-> d, research_data |-> rd, outcome |-> outcome]

Run(calls, prompt, result) == [calls |-> calls, prompt |-> prompt, result |-> result]

\* the callee's run seen from a caller that made `call` first
After(call, run) == Run(<< call >> \o run.calls, run.prompt, run.result)

generate_dalle_image(d) ==
    { Run(<< Call("dalle", d, NoResearch, "image") >>, NoPrompt, DalleURI),
      Run(<< Call("dalle", d, NoResearch, "exception") >>, NoPrompt, None) }

\* the inner loop without the filter on the fact type
RECURSIVE FactLines_any_type(_, _, _)
FactLines_any_type(facts, i, source_name) ==
    IF i > Len(facts) THEN << >>
    ELSE LET fact_text == facts[i].fact
             line == IF fact_text # ""
                     THEN << "- " \o fact_text \o " (Source: " \o source_name \o ")" >>
                     ELSE << >>
         IN  line \o FactLines_any_type(facts, i + 1, source_name)

\* the inner loop of _format_research_for_chart
RECURSIVE FactLines(_, _, _)
FactLines(facts, i, source_name) ==
    IF i > Len(facts) THEN << >>
    ELSE LET fact_text == facts[i].fact
             fact_type == facts[i].type
             line == IF fact_type \in {"statistic", "finding", "trend"} /\ fact_text # ""
                     THEN << "- " \o fact_text \o " (Source: " \o source_name \o ")" >>
                     ELSE << >>
         IN  line \o FactLines(facts, i + 1, source_name)

\* the outer loop of _format_research_for_chart
RECURSIVE ResultLines(_, _)
ResultLines(results, i) ==
    IF i > Len(results) THEN << >>
    ELSE (IF results[i].error THEN << >>
          ELSE FactLines(results[i].extracted_facts, 1, results[i].source_name))
         \o ResultLines(results, i + 1)

\* "\n".join(lines)
RECURSIVE Join(_, _)
Join(lines, i) ==
    IF i > Len(lines) THEN ""
    ELSE IF i = Len(lines) THEN lines[i]
    ELSE lines[i] \o "\n" \o Join(lines, i + 1)

_format_research_for_chart(research_data) ==
    IF ~TruthyList(research_data) THEN ""
    ELSE Join(ResultLines(research_data.results, 1), 1)

IllustrativeSubtitle ==
    "\n8. Add a small italic subtitle under the title: '(Illustrative example data)'"

\* the research block applied after the chart_data block: research facts
\* replace the user's values
ChartPrompt_research_wins(d, chart_data, research_data) ==
    LET research_facts == IF TruthyList(research_data)
                          THEN _format_research_for_chart(research_data) ELSE ""
        \* after the research block
        instr1 == IF research_facts # ""
                  THEN "\n\nIMPORTANT - USE REAL DATA FROM RESEARCH SOURCES:\nThe following statistics were extracted from research URLs. Use these EXACT values in your chart:\n"
                       \o research_facts
                       \o "\n\nExtract the relevant numbers from these facts and use them as your data points. Cite the source in a small footnote or caption.\n"
                  ELSE ""
        real1  == research_facts # ""
        data   == json_loads(chart_data)
        parsed == TruthyStr(chart_data) /\ data.t = "dict"
        usePts == parsed /\ Truthy(data.dataPoints) /\ data.dataPoints.t = "str"
                         /\ NonBlank(data.dataPoints.v)
        useSE  == parsed /\ ~usePts /\ Truthy(data.startValue) /\ Truthy(data.endValue)
        \* data.get on a list, or .strip() on a number: AttributeError is not
        \* among the caught (json.JSONDecodeError, KeyError)
        escapes == TruthyStr(chart_data)
                   /\ \/ data.t = "list"
                      \/ data.t = "dict" /\ Truthy(data.dataPoints) /\ data.dataPoints.t # "str"
        instr2 == IF usePts
                  THEN "\n\nIMPORTANT - USE THESE EXACT DATA POINTS (user-provided):\n"
                       \o data.dataPoints.v \o "\n"
                  ELSE IF useSE
                  THEN "\n\nIMPORTANT - USE THESE EXACT VALUES (user-provided):\n- Start value: "
                       \o data.startValue.v \o "\n- End value: " \o data.endValue.v
                       \o (IF Truthy(data.timePeriod)
                           THEN "\n- Time period: " \o data.timePeriod.v ELSE "")
                       \o "\n"
                  ELSE instr1
        real2  == real1 \/ usePts \/ useSE
    IN  [raised |-> escapes,
         prompt |-> [built |-> TRUE, description |-> d, data_instruction |-> IF real1 THEN instr1 ELSE instr2,
                     has_real_data |-> real2,
                     subtitle_instruction |-> IF ~real2 THEN IllustrativeSubtitle ELSE ""]]

\* generate_chart up to the prompt: the data instruction, has_real_data and
\* the subtitle instruction; raised when the chart_data handling lets an
\* exception escape
ChartPrompt(d, chart_data, research_data) ==
    LET research_facts == IF TruthyList(research_data)
                          THEN _format_research_for_chart(research_data) ELSE ""
        \* after the research block
        instr1 == IF research_facts # ""
                  THEN "\n\nIMPORTANT - USE REAL DATA FROM RESEARCH SOURCES:\nThe following statistics were extracted from research URLs. Use these EXACT values in your chart:\n"
                       \o research_facts
                       \o "\n\nExtract the relevant numbers from these facts and use them as your data points. Cite the source in a small footnote or caption.\n"
                  ELSE ""
        real1  == research_facts # ""
        data   == json_loads(chart_data)
        parsed == TruthyStr(chart_data) /\ data.t = "dict"
        usePts == parsed /\ Truthy(data.dataPoints) /\ data.dataPoints.t = "str"
                         /\ NonBlank(data.dataPoints.v)
        useSE  == parsed /\ ~usePts /\ Truthy(data.startValue) /\ Truthy(data.endValue)
        \* data.get on a list, or .strip() on a number: AttributeError is not
        \* among the caught (json.JSONDecodeError, KeyError)
        escapes == TruthyStr(chart_data)
                   /\ \/ data.t = "list"
                      \/ data.t = "dict" /\ Truthy(data.dataPoints) /\ data.dataPoints.t # "str"
        instr2 == IF usePts
                  THEN "\n\nIMPORTANT - USE THESE EXACT DATA POINTS (user-provided):\n"
                       \o data.dataPoints.v \o "\n"
                  ELSE IF useSE
                  THEN "\n\nIMPORTANT - USE THESE EXACT VALUES (user-provided):\n- Start value: "
                       \o data.startValue.v \o "\n- End value: " \o data.endValue.v
                       \o (IF Truthy(data.timePeriod)
                           THEN "\n- Time period: " \o data.timePeriod.v ELSE "")
                       \o "\n"
                  ELSE instr1
        real2  == real1 \/ usePts \/ useSE
    IN  [raised |-> escapes,
         prompt |-> [built |-> TRUE, description |-> d, data_instruction |-> instr2,
                     has_real_data |-> real2,
                     subtitle_instruction |-> IF ~real2 THEN IllustrativeSubtitle ELSE ""]]

generate_chart(d, chart_data, research_data) ==
    LET cp == ChartPrompt(d, chart_data, research_data)
        call(outcome) == Call("chart", d, research_data, outcome)
    IN  IF cp.raised
        THEN { Run(<< call("chart_data exception") >>, NoPrompt, Raise("AttributeError")) }
        ELSE { Run(<< call("model call exception") >>, cp.prompt, Raise("APIError")),
               Run(<< call("figure") >>, cp.prompt, ChartURI) }
             \cup { After(call("exec exception"), Run(r.calls, cp.prompt, r.result)) :
                        r \in generate_dalle_image(d) }

\* the infographic backend giving up, instead of handing over, on a
\* response without an image
generate_nano_banana_image_no_handover(d, research_data) ==
    LET call(outcome) == Call("imagen", d, research_data, outcome)
    IN  { Run(<< call("image") >>, NoPrompt, ImagenURI),
          Run(<< call("no image") >>, NoPrompt, None) }
        \cup { After(call(o), r) : o \in {"no credential", "exception"},
                                   r \in generate_dalle_image(d) }

generate_nano_banana_image(d, research_data) ==
    LET call(outcome) == Call("imagen", d, research_data, outcome)
    IN  { Run(<< call("image") >>, NoPrompt, ImagenURI) }
        \cup { After(call(o), r) : o \in {"no credential", "no image", "exception"},
                                   r \in generate_dalle_image(d) }

\* the video backend handing a timed-out request to the creative backend
generate_veo_video_hands_over(d) ==
    { Run(<< Call("veo", d, NoResearch, o) >>, NoPrompt, None) :
          o \in {"no credential", "no video", "download failed", "exception"} }
    \cup { After(Call("veo", d, NoResearch, "timeout"), r) : r \in generate_dalle_image(d) }
    \cup { Run(<< Call("veo", d, NoResearch, o) >>, NoPrompt, VeoURI) :
          o \in {"video bytes", "downloaded"} }

generate_veo_video(d) ==
    { Run(<< Call("veo", d, NoResearch, o) >>, NoPrompt, None) :
          o \in {"no credential", "timeout", "no video", "download failed", "exception"} }
    \cup { Run(<< Call("veo", d, NoResearch, o) >>, NoPrompt, VeoURI) :
          o \in {"video bytes", "downloaded"} }

(***************************************************************************)
(* generate_graphic                                                        *)
(***************************************************************************)
\* the dispatch chain without its 'diagram' branch
Dispatch_without_diagram(resolved, d, chart_data, research_data) ==
    IF resolved = "video" THEN generate_veo_video(d)
    ELSE IF resolved = "infographic" THEN generate_nano_banana_image(d, research_data)
    ELSE IF resolved = "chart" THEN generate_chart(d, chart_data, research_data)
    ELSE generate_dalle_image(d)

\* the dispatch chain of generate_graphic on the resolved type
Dispatch(resolved, d, chart_data, research_data) ==
    IF resolved = "video" THEN generate_veo_video(d)
    ELSE IF resolved = "infographic" THEN generate_nano_banana_image(d, research_data)
    ELSE IF resolved = "chart" THEN generate_chart(d, chart_data, research_data)
    ELSE IF resolved = "conceptual" \/ resolved = "concept" THEN generate_dalle_image(d)
    ELSE IF resolved = "diagram" THEN generate_chart(d, chart_data, research_data)
    ELSE generate_dalle_image(d)

\* a slip in the test for automatic classification: 'none' taken as a type
generate_graphic_none_explicit(d, graphic_type, chart_data, research_data) ==
    LET auto     == ~TruthyStr(graphic_type) \/ graphic_type = "auto"
        resolved == IF auto THEN classify_graphic_type(d) ELSE graphic_type
    IN  { [classified |-> auto, resolved |-> resolved,
           calls |-> r.calls, prompt |-> r.prompt, result |-> r.result] :
              r \in Dispatch(resolved, d, chart_data, research_data) }

generate_graphic(d, graphic_type, chart_data, research_data) ==
    LET auto     == ~TruthyStr(graphic_type) \/ graphic_type = "auto" \/ graphic_type = "none"
        resolved == IF auto THEN classify_graphic_type(d) ELSE graphic_type
    IN  { [classified |-> auto, resolved |-> resolved,
           calls |-> r.calls, prompt |-> r.prompt, result |-> r.result] :
              r \in Dispatch(resolved, d, chart_data, research_data) }

\* gg before any call of generate_graphic
NotCalled ==
    [classified |-> FALSE, resolved |-> None, calls |-> << >>,
     prompt |-> NoPrompt, result |-> None]

GG(d, graphic_type, chart_data, research_data, done, run) ==
    [description |-> d, graphic_type |-> graphic_type, chart_data |-> chart_data,
     research_data |-> research_data, done |-> done, run |-> run]

GGIdle == GG(None, None, None, NoResearch, FALSE, NotCalled)

\* the regeneration handed the data points of a form
regenerate_with_feedback_with_data(original_description, feedback, graphic_type) ==
    LET enhanced_description ==
            original_description \o "\n\nAdjustments requested: " \o feedback
    IN  { GG(enhanced_description, graphic_type, CD_points, NoResearch, TRUE, run) :
              run \in generate_graphic(enhanced_description, graphic_type, CD_points, NoResearch) }

regenerate_with_feedback(original_description, feedback, graphic_type) ==
    LET enhanced_description ==
            original_description \o "\n\nAdjustments requested: " \o feedback
    IN  { GG(enhanced_description, graphic_type, None, NoResearch, TRUE, run) :
              run \in generate_graphic(enhanced_description, graphic_type, None, NoResearch) }

(***************************************************************************)
(* API layer (main.py) over the submissions table (database.py)            *)
(***************************************************************************)
MaxSubmissions == 1

\* a submit-idea request: the form fields, and research_results as the
\* research block of the handler leaves it for the form's research_urls
Form(idea, d, t, cd, rr, img) ==
    [idea |-> idea, graphic_description |-> d, graphic_type |-> t,
     chart_data |-> cd, research_results |-> rr, image_file |-> img]

SubmitForms ==
    { Form(None, None, None, None, NoResearch, None),
      Form("Inventory lesson", None, None, None, Research(<< R_stat >>), None),
      Form("Inventory lesson", "Bar chart of sales", "auto", None, Research(<< R_stat >>), None),
      Form(None, "Bar chart of sales", "chart", CD_points, Research(<< R_stat >>), None),
      Form(None, "Bar chart of sales", "diagram", CD_list, Research(<< R_failed >>), None),
      Form(None, "Warehouse at dusk", "conceptual", None, Research(<< R_stat >>), None),
      Form(None, "Warehouse at dusk", "infographic", None, Research(<< R_stat >>), None),
      Form(None, "Warehouse at dusk", None, None, NoResearch, None),
      Form(None, "Warehouse at dusk", "video", None, Research(<< R_stat >>), None),
      Form(None, "Bar chart of sales", "chart", None, NoResearch, "<uploaded file>") }

Feedbacks == { "more contrast", "add animation", "show the stats" }

NoRequest ==
    [handler |-> None, status |-> 0, id |-> 0, research_results |-> NoResearch]

Response(handler, status, id, research_results) ==
    [handler |-> handler, status |-> status, id |-> id,
     research_results |-> research_results]

\* what genLog keeps of the generation that produced a row's graphic
Generation(gen, resolved) == [generated |-> gen, resolved |-> resolved]

\* POST /api/submit-idea
SubmitIdea(idea, graphic_description, graphic_type, chart_data, research_results, image_file, draft) ==
    IF ~TruthyStr(idea) /\ ~TruthyStr(graphic_description) /\ ~TruthyStr(image_file)
    THEN /\ http' = Response("submit_idea", 400, 0, NoResearch)
         /\ gg' = GGIdle
         /\ UNCHANGED << db, genLog >>
    ELSE IF TruthyStr(idea) /\ NonBlank(idea) /\ Raised(draft)
    THEN \* draft_linkedin_post raised: caught at the end of the handler
         /\ http' = Response("submit_idea", 500, 0, research_results)
         /\ gg' = GGIdle
         /\ UNCHANGED << db, genLog >>
    ELSE
    LET ai_draft == IF TruthyStr(idea) /\ NonBlank(idea) THEN draft ELSE None
        generate == ~TruthyStr(image_file) /\ TruthyStr(graphic_description)
        should_pass_research ==
            graphic_type \in {"chart", "diagram"} /\ TruthyList(research_results)
        passed == IF should_pass_research THEN research_results ELSE NoResearch
        runs == IF generate
                THEN { GG(graphic_description, graphic_type, chart_data, passed, TRUE, run) :
                         run \in generate_graphic(graphic_description, graphic_type,
                                                  chart_data, passed) }
                ELSE { GGIdle }
    IN  \E g \in runs :
          /\ gg' = g
          /\ IF Raised(g.run.result)
             THEN /\ http' = Response("submit_idea", 500, 0, research_results)
                  /\ UNCHANGED << db, genLog >>
             ELSE /\ Len(db) < MaxSubmissions
                  /\ db' = Append(db,
                        [raw_input |-> IF TruthyStr(idea) THEN idea ELSE "",
                         ai_draft |-> ai_draft,
                         graphic_description |-> graphic_description,
                         graphic_type |-> IF TruthyStr(graphic_type) THEN graphic_type ELSE None,
                         graphic_data |-> IF TruthyStr(image_file) THEN "<uploaded base64>"
                                          ELSE g.run.result,
                         research_urls |-> research_results,
                         status |-> "pending_review",
                         reviewed |-> FALSE])
                  /\ genLog' = Append(genLog, Generation(generate, g.run.resolved))
                  /\ http' = Response("submit_idea", 200, Len(db) + 1, research_results)

\* the handler without the test of the regeneration's result
RegenerateImage_stores_any_result(submission_id, feedback) ==
    IF submission_id \notin DOMAIN db
    THEN /\ http' = Response("regenerate_image", 404, submission_id, NoResearch)
         /\ gg' = GGIdle
         /\ UNCHANGED << db, genLog >>
    ELSE
    LET submission == db[submission_id] IN
    IF ~TruthyStr(submission.graphic_type) \/ ~TruthyStr(submission.graphic_description)
    THEN /\ http' = Response("regenerate_image", 400, submission_id, NoResearch)
         /\ gg' = GGIdle
         /\ UNCHANGED << db, genLog >>
    ELSE \E g \in regenerate_with_feedback(submission.graphic_description, feedback,
                                           submission.graphic_type) :
           LET new_image_data == g.run.result IN
           /\ gg' = g
           /\ IF Raised(new_image_data)
              THEN /\ http' = Response("regenerate_image", 500, submission_id, NoResearch)
                   /\ UNCHANGED << db, genLog >>
              ELSE /\ db' = [db EXCEPT ![submission_id].graphic_data = new_image_data]
                   /\ http' = Response("regenerate_image", 200, submission_id, NoResearch)
                   /\ UNCHANGED genLog

\* POST /api/regenerate-image/{submission_id}
RegenerateImage(submission_id, feedback) ==
    IF submission_id \notin DOMAIN db
    THEN /\ http' = Response("regenerate_image", 404, submission_id, NoResearch)
         /\ gg' = GGIdle
         /\ UNCHANGED << db, genLog >>
    ELSE
    LET submission == db[submission_id] IN
    IF ~TruthyStr(submission.graphic_type) \/ ~TruthyStr(submission.graphic_description)
    THEN /\ http' = Response("regenerate_image", 400, submission_id, NoResearch)
         /\ gg' = GGIdle
         /\ UNCHANGED << db, genLog >>
    ELSE \E g \in regenerate_with_feedback(submission.graphic_description, feedback,
                                           submission.graphic_type) :
           LET new_image_data == g.run.result IN
           /\ gg' = g
           /\ IF Raised(new_image_data) \/ ~TruthyStr(new_image_data)
              THEN /\ http' = Response("regenerate_image", 500, submission_id, NoResearch)
                   /\ UNCHANGED << db, genLog >>
              ELSE /\ db' = [db EXCEPT ![submission_id].graphic_data = new_image_data]
                   /\ http' = Response("regenerate_image", 200, submission_id, NoResearch)
                   /\ UNCHANGED genLog

\* POST /api/approve-submission/{submission_id} with the status test added
ApproveSubmission_pending_only(submission_id, edited_post) ==
    IF submission_id \notin DOMAIN db
    THEN /\ http' = Response("approve_submission", 404, submission_id, NoResearch)
         /\ gg' = GGIdle
         /\ UNCHANGED << db, genLog >>
    ELSE IF db[submission_id].status # "pending_review"
    THEN /\ http' = Response("approve_submission", 400, submission_id, NoResearch)
         /\ gg' = GGIdle
         /\ UNCHANGED << db, genLog >>
    ELSE /\ db' = [db EXCEPT ![submission_id].status = "approved",
                             ![submission_id].ai_draft = edited_post,
                             ![submission_id].reviewed = TRUE]
         /\ http' = Response("approve_submission", 200, submission_id, NoResearch)
         /\ gg' = GGIdle
         /\ UNCHANGED genLog

\* POST /api/approve-submission/{submission_id}
ApproveSubmission(submission_id, edited_post) ==
    IF submission_id \notin DOMAIN db
    THEN /\ http' = Response("approve_submission", 404, submission_id, NoResearch)
         /\ gg' = GGIdle
         /\ UNCHANGED << db, genLog >>
    ELSE /\ db' = [db EXCEPT ![submission_id].status = "approved",
                             ![submission_id].ai_draft = edited_post,
                             ![submission_id].reviewed = TRUE]
         /\ http' = Response("approve_submission", 200, submission_id, NoResearch)
         /\ gg' = GGIdle
         /\ UNCHANGED genLog

\* POST /api/reject-submission/{submission_id}
RejectSubmission(submission_id) ==
    IF submission_id \notin DOMAIN db
    THEN /\ http' = Response("reject_submission", 404, submission_id, NoResearch)
         /\ gg' = GGIdle
         /\ UNCHANGED << db, genLog >>
    ELSE /\ db' = [db EXCEPT ![submission_id].status = "rejected",
                             ![submission_id].reviewed = TRUE]
         /\ http' = Response("reject_submission", 200, submission_id, NoResearch)
         /\ gg' = GGIdle
         /\ UNCHANGED genLog

\* POST /api/select-variation/{submission_id}
SelectVariation(submission_id, image_data) ==
    IF submission_id \notin DOMAIN db
    THEN /\ http' = Response("select_variation", 404, submission_id, NoResearch)
         /\ gg' = GGIdle
         /\ UNCHANGED << db, genLog >>
    ELSE /\ db' = [db EXCEPT ![submission_id].graphic_data = image_data]
         /\ http' = Response("select_variation", 200, submission_id, NoResearch)
         /\ gg' = GGIdle
         /\ UNCHANGED genLog

\* GET /api/pending-submissions
GetPending ==
    /\ http' = Response("get_pending", 200, 0, NoResearch)
    /\ gg' = GGIdle
    /\ UNCHANGED << db, genLog >>

(***************************************************************************)
(* _fetch_with_retry (web_research.py)                                     *)
(***************************************************************************)
MAX_RETRIES == 3

\* what one requests.get + raise_for_status can end in
Retryable == { "Timeout", "SSLError", "ConnectionError", "HTTP 500", "HTTP 503",
               "RequestException", "Exception" }
ClientErrors == { "HTTP 404", "HTTP 403" }
Successes == { "HTTP 200" }
Outcomes == Successes \cup ClientErrors \cup Retryable

Pending == "<pending>"

\* the loop without the break on client errors
FetchRequest_retries_4xx ==
    /\ fetchPc = "request"
    /\ \E o \in Outcomes :
         /\ trace' = Append(trace, o)
         /\ IF o \in Successes
            THEN fetchPc' = "done" /\ fetched' = o
            ELSE fetchPc' = "failed attempt" /\ UNCHANGED fetched
    /\ UNCHANGED << attempt, classifyVars, routerVars, apiVars, researchVars, writingVars, veoVars, extractVars, chartVars >>

\* the try block of one loop iteration and its except handlers
FetchRequest ==
    /\ fetchPc = "request"
    /\ \E o \in Outcomes :
         /\ trace' = Append(trace, o)
         /\ IF o \in Successes
            THEN fetchPc' = "done" /\ fetched' = o
            ELSE IF o \in ClientErrors
            THEN fetchPc' = "break" /\ UNCHANGED fetched
            ELSE fetchPc' = "failed attempt" /\ UNCHANGED fetched
    /\ UNCHANGED << attempt, classifyVars, routerVars, apiVars, researchVars, writingVars, veoVars, extractVars, chartVars >>

\* the delay taken after every failed attempt, the loop bound off by one
FetchSleep_after_last ==
    /\ fetchPc = "failed attempt"
    /\ attempt < MAX_RETRIES
    /\ trace' = Append(trace, "sleep")
    /\ attempt' = attempt + 1
    /\ fetchPc' = "request"
    /\ UNCHANGED << fetched, classifyVars, routerVars, apiVars, researchVars, writingVars, veoVars, extractVars, chartVars >>

\* the delay at the end of an iteration that is not the last, and the
\* loop's step to the next attempt
FetchSleep ==
    /\ fetchPc = "failed attempt"
    /\ attempt < MAX_RETRIES - 1
    /\ trace' = Append(trace, "sleep")
    /\ attempt' = attempt + 1
    /\ fetchPc' = "request"
    /\ UNCHANGED << fetched, classifyVars, routerVars, apiVars, researchVars, writingVars, veoVars, extractVars, chartVars >>

\* after the loop (range exhausted, or break): return None
FetchGiveUp ==
    /\ \/ fetchPc = "break"
       \/ fetchPc = "failed attempt" /\ ~(attempt < MAX_RETRIES - 1)
    /\ fetched' = None
    /\ fetchPc' = "done"
    /\ UNCHANGED << attempt, trace, classifyVars, routerVars, apiVars, researchVars, writingVars, veoVars, extractVars, chartVars >>

(***************************************************************************)
(* More text: str.strip, str.find, str.replace, slices                     *)
(***************************************************************************)
Chars(s) == { SubSeq(s, i, i) : i \in 1..Len(s) }

Whitespace == { " ", "\n", "\t" }

RECURSIVE LStrip(_)
LStrip(s) ==
    IF Len(s) > 0 /\ SubSeq(s, 1, 1) \in Whitespace THEN LStrip(SubSeq(s, 2, Len(s))) ELSE s

RECURSIVE RStrip(_)
RStrip(s) ==
    IF Len(s) > 0 /\ SubSeq(s, Len(s), Len(s)) \in Whitespace
    THEN RStrip(SubSeq(s, 1, Len(s) - 1)) ELSE s

\* str.strip()
Strip(s) == RStrip(LStrip(s))

\* str.find(k) + 1: the position of the first occurrence, 0 when there is none
IndexOf(k, s) ==
    IF IsSubstring(k, s)
    THEN CHOOSE i \in 1..(Len(s) - Len(k) + 1) :
            /\ SubSeq(s, i, i + Len(k) - 1) = k
            /\ \A j \in 1..(i - 1) : SubSeq(s, j, j + Len(k) - 1) # k
    ELSE 0

\* s[:n]
Prefix(s, n) == SubSeq(s, 1, IF Len(s) < n THEN Len(s) ELSE n)

\* s[n:] counted from position n + 1
Suffix(s, n) == SubSeq(s, n + 1, Len(s))

\* str.replace(old, "")
RECURSIVE Remove(_, _)
Remove(s, old) ==
    LET i == IndexOf(old, s)
    IN  IF i = 0 THEN s
        ELSE SubSeq(s, 1, i - 1) \o Remove(Suffix(s, i + Len(old) - 1), old)

RECURSIVE Repeat(_, _)
Repeat(s, n) ==
    IF n = 0 THEN ""
    ELSE LET half == Repeat(s, n \div 2)
         IN  half \o half \o (IF n % 2 = 1 THEN s ELSE "")

(***************************************************************************)
(* urllib.parse.urlparse, as far as scheme and netloc go                   *)
(***************************************************************************)
SchemeChars == Chars(UpperLetters) \cup Chars(LowerLetters) \cup Chars("0123456789+-.")

\* the network location ends at the first of / ? #
NetlocEnd(rest) ==
    LET ends == { i \in 1..Len(rest) : SubSeq(rest, i, i) \in {"/", "?", "#"} }
    IN  IF ends = {} THEN Len(rest) + 1 ELSE CHOOSE i \in ends : \A j \in ends : i <= j

urlparse(url) ==
    LET i == IndexOf(":", url)
        hasScheme == /\ i > 1
                     /\ SubSeq(url, 1, 1) \in Chars(UpperLetters) \cup Chars(LowerLetters)
                     /\ Chars(SubSeq(url, 1, i - 1)) \subseteq SchemeChars
        scheme == IF hasScheme THEN Lower(SubSeq(url, 1, i - 1)) ELSE ""
        rest == IF hasScheme THEN Suffix(url, i) ELSE url
        hasNetloc == Prefix(rest, 2) = "//"
        netloc == IF hasNetloc
                  THEN SubSeq(rest, 3, 2 + NetlocEnd(Suffix(rest, 2)) - 1)
                  ELSE ""
        bad == \/ IsSubstring("[", netloc) /\ ~IsSubstring("]", netloc)
               \/ IsSubstring("]", netloc) /\ ~IsSubstring("[", netloc)
    IN  [raised |-> IF bad THEN Raise("ValueError") ELSE None,
         scheme |-> scheme, netloc |-> netloc]

\* urlparse(url).netloc.replace('www.', '')
SourceName(url) == Remove(urlparse(url).netloc, "www.")

(***************************************************************************)
(* extract_facts_from_content (web_research.py)                            *)
(***************************************************************************)
ResearchRecord(url, source_name, facts, summary, score, error) ==
    [url |-> url, source_name |-> source_name, extracted_facts |-> facts,
     summary |-> summary, relevance_score |-> score, error |-> error]

\* the markdown code fence, three backquotes: written with apostrophes, since
\* a string of this notation cannot hold a backquote
Fence == "'''"

\* texts the model can answer with
J_plain == "{\"extracted_facts\": [{\"fact\": \"Revenue grew 40%\", \"type\": \"statistic\"}], \"summary\": \"Growth report\", \"relevance_score\": 8}"
J_stamped == "{\"url\": \"http://other.example/\", \"source_name\": \"other\", \"extracted_facts\": [], \"summary\": \"Off topic\", \"relevance_score\": 2}"
J_list == "[]"
T_short == "I could not find any facts."
T_long == Repeat("Nothing relevant here. ", 25)
T_brace == "{\"extracted_facts\": [}"

ModelResponses ==
    { J_plain, J_stamped, J_list, T_short, T_long, T_brace,
      Fence \o "json\n" \o J_plain \o "\n" \o Fence,
      "Here is the analysis:\n" \o Fence \o "\n" \o J_stamped \o "\n" \o Fence \o "\nDone.",
      Fence \o "json\nno facts\n" \o Fence,
      "  " \o J_plain \o "\n" }

\* json.loads on the texts above
json_loads_facts(s) ==
    CASE s = J_plain ->
            [t |-> "dict", url |-> None, source_name |-> None,
             extracted_facts |-> << Fact("Revenue grew 40%", "statistic") >>,
             summary |-> "Growth report", relevance_score |-> 8]
      [] s = J_stamped ->
            [t |-> "dict", url |-> "http://other.example/", source_name |-> "other",
             extracted_facts |-> << >>, summary |-> "Off topic", relevance_score |-> 2]
      [] s = J_list ->
            [t |-> "list", url |-> None, source_name |-> None,
             extracted_facts |-> << >>, summary |-> "", relevance_score |-> 0]
      [] OTHER ->
            [t |-> "JSONDecodeError", url |-> None, source_name |-> None,
             extracted_facts |-> << >>, summary |-> "", relevance_score |-> 0]

\* text.split(fence)[1].split(Fence)[0]: what follows the first fence, up to
\* the next run of three backquotes (every Fence \o "json" starts with one)
FenceBody(text, fence) ==
    LET rest == Suffix(text, IndexOf(fence, text) + Len(fence) - 1)
        j == IndexOf(Fence, rest)
    IN  IF j = 0 THEN rest ELSE SubSeq(rest, 1, j - 1)

\* lines 588-594
JsonStr(response_text) ==
    IF IsSubstring(Fence \o "json", response_text)
    THEN Strip(FenceBody(response_text, Fence \o "json"))
    ELSE IF IsSubstring(Fence, response_text) THEN Strip(FenceBody(response_text, Fence))
    ELSE Strip(response_text)

NoCall == "<no call>"

ExtractRun(response, raised, result) ==
    [response |-> response, raised |-> raised, result |-> result]

\* no record: the call raised
NoRecord == [url |-> None, source_name |-> None, extracted_facts |-> << >>,
             summary |-> "", relevance_score |-> 0, error |-> FALSE]

\* the record of the outer except handler
ExtractionError(url, message) ==
    ResearchRecord(url, SourceName(url), << >>, "Error extracting content: " \o message, 0, FALSE)

\* the parse-failure record keeps the head of the cleaned text, not of the raw one
ParsedResponse_summary_of_json_str(response_text) ==
    LET parsed == json_loads_facts(JsonStr(response_text))
    IN  IF parsed.t = "JSONDecodeError"
        THEN [t |-> "dict", url |-> None, source_name |-> None, extracted_facts |-> << >>,
              summary |-> Prefix(JsonStr(response_text), 500), relevance_score |-> 5]
        ELSE parsed

\* lines 586-603: the inner try
ParsedResponse(response_text) ==
    LET parsed == json_loads_facts(JsonStr(response_text))
    IN  IF parsed.t = "JSONDecodeError"
        THEN [t |-> "dict", url |-> None, source_name |-> None, extracted_facts |-> << >>,
              summary |-> Prefix(response_text, 500), relevance_score |-> 5]
        ELSE parsed

\* the result keeps the url and source_name of the model's answer
StampSource_keeps_model_values(result, url, source_name) ==
    ResearchRecord(IF result.url = None THEN url ELSE result.url,
                   IF result.source_name = None THEN source_name ELSE result.source_name,
                   result.extracted_facts, result.summary, result.relevance_score, FALSE)

\* lines 605-607: result["url"] = url; result["source_name"] = source_name
StampSource(result, url, source_name) ==
    ResearchRecord(url, source_name, result.extracted_facts, result.summary,
                   result.relevance_score, FALSE)

\* every run of extract_facts_from_content(content, topic, url)
extract_facts_from_content(content, topic, url) ==
    IF urlparse(url).raised # None
    THEN \* line 540 raises, and so does line 615 in the handler
         { ExtractRun(NoCall, urlparse(url).raised, NoRecord) }
    ELSE { ExtractRun(Raise("APIError"), None, ExtractionError(url, "APIError")) }
         \cup
         { LET result == ParsedResponse(response_text)
           IN  IF result.t = "dict"
               THEN ExtractRun(response_text, None, StampSource(result, url, SourceName(url)))
               ELSE \* item assignment on a list: TypeError, caught at line 611
                    ExtractRun(response_text, None, ExtractionError(url, "TypeError"))
           : response_text \in ModelResponses }

(***************************************************************************)
(* fetch_url_content: content selection (web_research.py)                  *)
(***************************************************************************)
EXCLUDE_PATTERNS ==
    << "sidebar", "widget", "recent", "related", "footer", "nav", "menu",
       "advertisement", "ad-", "ads-", "advert", "sponsor", "promo",
       "comment", "share", "social", "newsletter", "subscribe",
       "breadcrumb", "pagination", "author-bio", "meta", "tags",
       "popular", "trending", "recommended", "also-read", "more-from" >>

CONTENT_PATTERNS ==
    << "content", "article", "post", "entry", "story", "body",
       "main", "text", "blog", "news", "prose" >>

\* a node of the parsed document: a tag with its class and id attributes (and
\* alt, for images) and its children, or a string
Node(tag, class, id, alt, text, children) ==
    [tag |-> tag, class |-> class, id |-> id, alt |-> alt, text |-> text,
     children |-> children]

El(tag, class, id, children) == Node(tag, class, id, "", "", children)
Text(s) == Node("#text", "", "", "", s, << >>)
Img(alt) == Node("img", "", "", alt, "", << >>)

\* find() without a match
NoNode == Node("#none", "", "", "", "", << >>)

IsTag(n) == n.tag \notin {"#text", "#none"}

\* the descendants of a list of nodes, in document order
RECURSIVE Flatten(_)
Flatten(nodes) ==
    IF nodes = << >> THEN << >>
    ELSE << Head(nodes) >> \o Flatten(Head(nodes).children) \o Flatten(Tail(nodes))

RECURSIVE Filter(_, _)
Filter(nodes, tags) ==
    IF nodes = << >> THEN << >>
    ELSE (IF Head(nodes).tag \in tags THEN << Head(nodes) >> ELSE << >>)
         \o Filter(Tail(nodes), tags)

\* element.find_all(tags)
find_all(n, tags) == Filter(Flatten(n.children), tags)

\* element.find_all(): every tag below the element
RECURSIVE TagsOnly(_)
TagsOnly(nodes) ==
    IF nodes = << >> THEN << >>
    ELSE (IF IsTag(Head(nodes)) THEN << Head(nodes) >> ELSE << >>) \o TagsOnly(Tail(nodes))

find_all_tags(n) == TagsOnly(Flatten(n.children))

\* element.find(tag)
find(n, tag) ==
    LET found == find_all(n, {tag}) IN IF found = << >> THEN NoNode ELSE Head(found)

\* the strings below a node, stripped, the empty ones dropped
RECURSIVE StrippedStrings(_)
StrippedStrings(nodes) ==
    IF nodes = << >> THEN << >>
    ELSE (IF Head(nodes).tag = "#text" /\ Strip(Head(nodes).text) # ""
          THEN << Strip(Head(nodes).text) >> ELSE << >>)
         \o StrippedStrings(Tail(nodes))

RECURSIVE JoinWith(_, _)
JoinWith(strings, separator) ==
    IF strings = << >> THEN ""
    ELSE IF Len(strings) = 1 THEN Head(strings)
    ELSE Head(strings) \o separator \o JoinWith(Tail(strings), separator)

\* element.get_text(separator=separator, strip=True)
get_text(n, separator) == JoinWith(StrippedStrings(Flatten(<< n >>)), separator)

\* ' '.join(classes).lower() + ' ' + str(element_id).lower()
Identifiers(element) == Lower(element.class) \o " " \o Lower(element.id)

_should_exclude_element(element) ==
    /\ IsTag(element)
    /\ \E i \in DOMAIN EXCLUDE_PATTERNS : IsSubstring(EXCLUDE_PATTERNS[i], Identifiers(element))

_is_content_element(element) ==
    /\ IsTag(element)
    /\ \E i \in DOMAIN CONTENT_PATTERNS : IsSubstring(CONTENT_PATTERNS[i], Identifiers(element))

\* (text length, tag count)
_get_text_density(element) ==
    [text_len |-> Len(get_text(element, "")), tags |-> Len(find_all_tags(element))]

\* decompose() on every node below that has one of the tags
RECURSIVE WithoutTags(_, _)
WithoutTags(nodes, tags) ==
    IF nodes = << >> THEN << >>
    ELSE LET n == Head(nodes)
         IN  (IF n.tag \in tags THEN << >>
              ELSE << [n EXCEPT !.children = WithoutTags(n.children, tags)] >>)
             \o WithoutTags(Tail(nodes), tags)

\* decompose() on every node below that _should_exclude_element accepts
RECURSIVE WithoutExcluded(_)
WithoutExcluded(nodes) ==
    IF nodes = << >> THEN << >>
    ELSE LET n == Head(nodes)
         IN  (IF _should_exclude_element(n) THEN << >>
              ELSE << [n EXCEPT !.children = WithoutExcluded(n.children)] >>)
             \o WithoutExcluded(Tail(nodes))

_clean_element(element) == [element EXCEPT !.children = WithoutExcluded(element.children)]

\* re.split(r'\s*[|\-]\s*', title)[0].strip()
TitleHead(title) ==
    LET cuts == { i \in 1..Len(title) : SubSeq(title, i, i) \in {"|", "-"} }
    IN  IF cuts = {} THEN Strip(title)
        ELSE Strip(SubSeq(title, 1, (CHOOSE i \in cuts : \A j \in cuts : i <= j) - 1))

_extract_page_title(soup) ==
    LET title_tag == find(soup, "title")
        title == IF title_tag = NoNode THEN "" ELSE TitleHead(get_text(title_tag, ""))
        h1 == find(soup, "h1")
    IN  IF title # "" THEN title
        ELSE IF h1 # NoNode THEN get_text(h1, "")
        ELSE ""

RECURSIVE CellTexts(_)
CellTexts(cells) ==
    IF cells = << >> THEN << >>
    ELSE << get_text(Head(cells), "") >> \o CellTexts(Tail(cells))

RECURSIVE RowLines(_)
RowLines(rows) ==
    IF rows = << >> THEN << >>
    ELSE LET cells == CellTexts(find_all(Head(rows), {"td", "th"}))
         IN  (IF cells # << >> /\ \E i \in DOMAIN cells : cells[i] # ""
              THEN << JoinWith(cells, " | ") >> ELSE << >>)
             \o RowLines(Tail(rows))

\* the lines of one table
TableData(table) ==
    LET headers == CellTexts(find_all(table, {"th"}))
    IN  (IF headers # << >>
         THEN << JoinWith(headers, " | "), Repeat("-", 40) >> ELSE << >>)
        \o RowLines(find_all(table, {"tr"}))

RECURSIVE TablesText(_)
TablesText(tables) ==
    IF tables = << >> THEN << >>
    ELSE (IF _should_exclude_element(Head(tables)) \/ TableData(Head(tables)) = << >>
          THEN << >>
          ELSE << JoinWith(TableData(Head(tables)), "\n") >>)
         \o TablesText(Tail(tables))

_extract_tables(soup) ==
    LET tables_text == TablesText(find_all(soup, {"table"}))
    IN  IF tables_text # << >>
        THEN "\n\n[TABLE DATA]\n" \o JoinWith(tables_text, "\n\n")
        ELSE ""

RECURSIVE ImageInfo(_)
ImageInfo(images) ==
    IF images = << >> THEN << >>
    ELSE LET alt == Head(images).alt
         IN  (IF /\ Len(alt) > 20
                 /\ ~\E skip \in {"logo", "icon", "avatar", "thumbnail", "profile"} :
                        IsSubstring(skip, Lower(alt))
              THEN << "[Image: " \o alt \o "]" >> ELSE << >>)
             \o ImageInfo(Tail(images))

_extract_image_data(soup) ==
    LET image_info == ImageInfo(find_all(soup, {"img"}))
    IN  IF image_info # << >>
        THEN "\n\n[IMAGE DESCRIPTIONS]\n"
             \o JoinWith(SubSeq(image_info, 1, IF Len(image_info) < 10 THEN Len(image_info) ELSE 10), "\n")
        ELSE ""

\* the candidates of _find_largest_text_block, in document order
RECURSIVE Candidates(_)
Candidates(tags) ==
    IF tags = << >> THEN << >>
    ELSE (IF _should_exclude_element(Head(tags)) \/ _get_text_density(Head(tags)).text_len < 200
          THEN << >> ELSE << Head(tags) >>)
         \o Candidates(Tail(tags))

\* max(tag_count, 1)
TagCount(element) ==
    IF _get_text_density(element).tags > 1 THEN _get_text_density(element).tags ELSE 1

\* the sort key (text_len, density) of a is greater than that of b, density
\* being text_len / max(tag_count, 1)
KeyGreater(a, b) ==
    LET da == _get_text_density(a)
        db_ == _get_text_density(b)
    IN  \/ da.text_len > db_.text_len
        \/ da.text_len = db_.text_len
           /\ da.text_len * TagCount(b) > db_.text_len * TagCount(a)

\* the stable descending sort's first element
_find_largest_text_block(soup) ==
    LET candidates == Candidates(find_all(soup, {"div", "section", "article", "main"}))
    IN  IF candidates = << >> THEN NoNode
        ELSE candidates[CHOOSE i \in DOMAIN candidates :
                            /\ \A j \in DOMAIN candidates : ~KeyGreater(candidates[j], candidates[i])
                            /\ \A j \in 1..(i - 1) : KeyGreater(candidates[i], candidates[j])]

\* lines 409-427: script, style, noscript and iframe removed, then every
\* element that matches an exclude pattern
RemoveUnwanted(soup) ==
    [soup EXCEPT !.children =
        WithoutExcluded(WithoutTags(soup.children, {"script", "style", "noscript", "iframe"}))]

RECURSIVE FirstContentElement(_)
FirstContentElement(tags) ==
    IF tags = << >> THEN NoNode
    ELSE IF _is_content_element(Head(tags)) /\ _get_text_density(Head(tags)).text_len > 200
    THEN Head(tags)
    ELSE FirstContentElement(Tail(tags))

Selected(main_content, extraction_method) ==
    [main_content |-> main_content, extraction_method |-> extraction_method]

\* the chain with the main element asked for before the article element
SelectMainContent_main_first(soup) ==
    IF find(soup, "main") # NoNode THEN Selected(find(soup, "main"), "main tag")
    ELSE IF find(soup, "article") # NoNode THEN Selected(find(soup, "article"), "article tag")
    ELSE IF FirstContentElement(find_all(soup, {"div", "section"})) # NoNode
    THEN Selected(FirstContentElement(find_all(soup, {"div", "section"})), "content class/id")
    ELSE IF _find_largest_text_block(soup) # NoNode
    THEN Selected(_find_largest_text_block(soup), "largest text block")
    ELSE Selected(find(soup, "body"), "body fallback")

\* lines 431-457: the five strategies
SelectMainContent(soup) ==
    IF find(soup, "article") # NoNode THEN Selected(find(soup, "article"), "article tag")
    ELSE IF find(soup, "main") # NoNode THEN Selected(find(soup, "main"), "main tag")
    ELSE IF FirstContentElement(find_all(soup, {"div", "section"})) # NoNode
    THEN Selected(FirstContentElement(find_all(soup, {"div", "section"})), "content class/id")
    ELSE IF _find_largest_text_block(soup) # NoNode
    THEN Selected(_find_largest_text_block(soup), "largest text block")
    ELSE Selected(find(soup, "body"), "body fallback")

\* text.split('\n'), each line stripped, the empty ones dropped
RECURSIVE NonEmptyLines(_)
NonEmptyLines(text) ==
    LET i == IndexOf("\n", text)
        line == Strip(IF i = 0 THEN text ELSE SubSeq(text, 1, i - 1))
    IN  (IF line # "" THEN << line >> ELSE << >>)
        \o (IF i = 0 THEN << >> ELSE NonEmptyLines(Suffix(text, i)))

RECURSIVE LongParagraphs(_)
LongParagraphs(paragraphs) ==
    IF paragraphs = << >> THEN << >>
    ELSE (IF Len(get_text(Head(paragraphs), "")) > 50
          THEN << get_text(Head(paragraphs), "") >> ELSE << >>)
         \o LongParagraphs(Tail(paragraphs))

\* lines 461-497: the text of the selected element, or of the whole
\* document, and the paragraph fallback
ExtractedText(soup, selected) ==
    LET raw == IF selected.main_content # NoNode
               THEN get_text(_clean_element(selected.main_content), "\n")
               ELSE get_text(soup, "\n")
        text == JoinWith(NonEmptyLines(raw), "\n")
        p_text == JoinWith(LongParagraphs(find_all(soup, {"p"})), "\n")
    IN  IF Len(text) < 200 /\ Len(p_text) > Len(text)
        THEN [text |-> p_text, extraction_method |-> "paragraph fallback"]
        ELSE [text |-> text,
              extraction_method |-> IF selected.main_content # NoNode
                                    THEN selected.extraction_method ELSE "raw text"]

\* lines 499-514 with the marker also put on a text of exactly 8000 characters
FinalContent_at_the_limit(page_title, text, tables_text, image_text) ==
    LET final_content ==
            (IF page_title # "" THEN "TITLE: " \o page_title \o "\n\n" ELSE "")
            \o "MAIN CONTENT:\n" \o text
            \o (IF tables_text # "" THEN "\n\n" \o tables_text ELSE "")
            \o (IF image_text # "" THEN "\n\n" \o image_text ELSE "")
    IN  IF Len(final_content) >= 8000
        THEN SubSeq(final_content, 1, 8000) \o "\n[Content truncated...]"
        ELSE final_content

\* lines 499-514
FinalContent(page_title, text, tables_text, image_text) ==
    LET final_content ==
            (IF page_title # "" THEN "TITLE: " \o page_title \o "\n\n" ELSE "")
            \o "MAIN CONTENT:\n" \o text
            \o (IF tables_text # "" THEN "\n\n" \o tables_text ELSE "")
            \o (IF image_text # "" THEN "\n\n" \o image_text ELSE "")
    IN  IF Len(final_content) > 8000
        THEN SubSeq(final_content, 1, 8000) \o "\n[Content truncated...]"
        ELSE final_content

\* fetch_url_content on a parsed page, lines 383-518
PageContent(soup) ==
    LET cleaned == RemoveUnwanted(soup)
    IN  FinalContent(_extract_page_title(soup),
                     ExtractedText(cleaned, SelectMainContent(cleaned)).text,
                     _extract_tables(soup), _extract_image_data(soup))

\* the pages fetched
ArticleText == Repeat("Stockouts fell 23% after the count moved to the shelf. ", 4)
LongerText == Repeat("Planners trust the system of record until the shelf is empty. ", 5)
ShortText == "A short teaser about inventory."
\* 7873 characters once stripped
BookText == Repeat("Planners trust the system of record until the shelf is empty. ", 127)
\* 112 characters
ClosingText == Repeat("Counted.", 14)
MediumText == "Retailers count what sits in the back room, not what shoppers can buy."
AsideText == "Our consultants answer questions about replenishment every Friday."
RelatedText == "You may also like these stories"
SidebarText == "Popular posts this week"
NavText == "Home About Contact"

P(s) == El("p", "", "", << Text(s) >>)

Heads ==
    { << >>,
      << El("head", "", "", << El("title", "", "", << Text(" Inventory lessons | Claris Blog ") >>) >>) >> }

MainRegions ==
    { << El("article", "post", "", << El("h1", "", "", << Text("Shelf counts") >>),
                                      P(ArticleText),
                                      El("div", "Related-Posts", "", << P(RelatedText) >>) >>) >>,
      << El("article", "teaser", "", << P(ShortText) >>),
         El("article", "", "story-2", << El("h2", "", "", << Text("The long read") >>),
                                         P(ArticleText) >>) >>,
      << El("main", "", "", << El("aside", "", "", << P(AsideText) >>),
                               El("article", "", "", << P(ArticleText) >>) >>) >>,
      << El("div", "", "content-with-sidebar", << El("article", "", "", << P(ArticleText) >>) >>) >>,
      << El("div", "Post-Body", "", << P(ArticleText) >>) >>,
      << El("section", "", "", << P(ArticleText) >>),
         El("div", "", "", << P(LongerText), P(MediumText) >>) >>,
      << P(MediumText), P(ShortText) >>,
      << El("main", "", "", << P(LongerText) >>) >>,
      << El("div", "related-stories", "", << El("article", "", "", << P(LongerText) >>) >>),
         El("main", "", "", << P(ArticleText) >>) >>,
      << El("div", "", "", << P(MediumText), P(MediumText), P(MediumText),
                              P(MediumText), P(MediumText), P(MediumText) >>),
         El("section", "", "", << P(LongerText) >>) >>,
      << El("div", "", "", << P(Repeat("Counted.", 25)) >>) >>,
      << El("article", "", "", << P(BookText), P(ClosingText) >>) >>,
      << El("article", "", "", << P(BookText), P(ClosingText \o "!") >>) >> }

Sides ==
    { << >>,
      << El("div", "sidebar widget-area", "",
            << P(SidebarText),
               El("table", "", "",
                  << El("tr", "", "", << El("th", "", "", << Text("Week") >>),
                                         El("th", "", "", << Text("Out of stock") >>) >>),
                     El("tr", "", "", << El("td", "", "", << Text("12") >>),
                                         El("td", "", "", << Text("41") >>) >>) >>) >>) >>,
      << El("nav", "", "", << Text(NavText) >>), El("aside", "", "", << P(AsideText) >>) >>,
      << El("footer", "site-footer", "", << Text("Copyright Claris") >>),
         Img("Chart of stockouts by week, 2023"),
         Img("Claris logo in blue and white"),
         El("script", "", "", << Text("track('page')") >>) >> }

Page(head, main_region, side) ==
    Node("[document]", "", "", "", "",
         << El("html", "", "", head \o << El("body", "", "", main_region \o side) >>) >>)

Pages == { Page(head, main_region, side) :
              head \in Heads, main_region \in MainRegions, side \in Sides }

Ex(pc, page, soup, page_title, tables_text, image_text, selected, text, extraction_method, result) ==
    [pc |-> pc, page |-> page, soup |-> soup, page_title |-> page_title,
     tables_text |-> tables_text, image_text |-> image_text, selected |-> selected,
     text |-> text, extraction_method |-> extraction_method, result |-> result]

ExIdle == Ex("idle", NoNode, NoNode, "", "", "", NoNode, "", "", None)

\* lines 390-404: title, tables and image captions, taken before anything
\* is removed
ExtractMetadata ==
    /\ ex.pc = "parsed"
    /\ ex' = [ex EXCEPT !.pc = "metadata",
                        !.page_title = _extract_page_title(ex.soup),
                        !.tables_text = _extract_tables(ex.soup),
                        !.image_text = _extract_image_data(ex.soup)]
    /\ UNCHANGED << classifyVars, routerVars, apiVars, fetchVars, researchVars, writingVars, veoVars, chartVars >>

\* the document handed on as it was parsed
RemoveBoilerplate_skipped ==
    /\ ex.pc = "metadata"
    /\ ex' = [ex EXCEPT !.pc = "cleaned"]
    /\ UNCHANGED << classifyVars, routerVars, apiVars, fetchVars, researchVars, writingVars, veoVars, chartVars >>

\* lines 408-427
RemoveBoilerplate ==
    /\ ex.pc = "metadata"
    /\ ex' = [ex EXCEPT !.pc = "cleaned", !.soup = RemoveUnwanted(ex.soup)]
    /\ UNCHANGED << classifyVars, routerVars, apiVars, fetchVars, researchVars, writingVars, veoVars, chartVars >>

\* lines 429-459
FindMainContent ==
    /\ ex.pc = "cleaned"
    /\ ex' = [ex EXCEPT !.pc = "selected",
                        !.selected = SelectMainContent(ex.soup).main_content,
                        !.extraction_method = SelectMainContent(ex.soup).extraction_method]
    /\ UNCHANGED << classifyVars, routerVars, apiVars, fetchVars, researchVars, writingVars, veoVars, chartVars >>

\* lines 461-497
ExtractText ==
    /\ ex.pc = "selected"
    /\ LET extracted == ExtractedText(ex.soup, Selected(ex.selected, ex.extraction_method))
       IN  ex' = [ex EXCEPT !.pc = "text", !.text = extracted.text,
                            !.extraction_method = extracted.extraction_method]
    /\ UNCHANGED << classifyVars, routerVars, apiVars, fetchVars, researchVars, writingVars, veoVars, chartVars >>

\* lines 499-518
AssembleContent ==
    /\ ex.pc = "text"
    /\ ex' = [ex EXCEPT !.pc = "returned",
                        !.result = FinalContent(ex.page_title, ex.text, ex.tables_text,
                                                ex.image_text)]
    /\ UNCHANGED << classifyVars, routerVars, apiVars, fetchVars, researchVars, writingVars, veoVars, chartVars >>

(***************************************************************************)
(* process_research_urls, fetch_and_extract, fetch_url_content             *)
(***************************************************************************)
Topic == "Inventory visibility"

\* the URL lists submitted
UrlLists ==
    { << >>,
      << "http://x" >>,
      << "  ", "" >>,
      << " https://www.example.com/a?b ", "", "http://x" >>,
      << "example.com/page", "http://localhost:8000/r" >>,
      << "http://x", "http://[bad", "https://www.example.com/a?b" >>,
      << "http://", "HTTP://WWW.X.COM/" >> }

\* the page the requests of process_research_urls are answered with
FetchedPages ==
    { Page(<< El("head", "", "", << El("title", "", "", << Text("Shelf counts - Claris") >>) >>) >>,
           << El("article", "", "", << P(MediumText) >>) >>,
           << El("div", "sidebar", "", << P(SidebarText) >>) >>) }

\* what parsing and content selection can end in (lines 380-524): the
\* content of the page, or an exception
ParseOutcomes == { PageContent(page) : page \in FetchedPages } \cup { Raise("Exception") }

WR(pc, urls, i, url, content, results, log, raised) ==
    [pc |-> pc, urls |-> urls, i |-> i, url |-> url, content |-> content,
     results |-> results, log |-> log, raised |-> raised]

WRIdle == WR("idle", << >>, 1, None, None, << >>, << >>, None)

\* one handled URL: what was fetched for it and what the model answered
Handled(url, content, response) == [url |-> url, content |-> content, response |-> response]

\* the record of lines 640-647
FetchFailed(url) ==
    ResearchRecord(url, SourceName(url), << >>, "Failed to fetch content from URL", 0, TRUE)

\* process_research_urls, lines 668-675: the loop head, the blank test and
\* the call of fetch_and_extract(url.strip(), topic)
ProcessResearchUrls ==
    /\ wr.pc = "loop"
    /\ IF wr.i > Len(wr.urls)
       THEN wr' = [wr EXCEPT !.pc = "returned"] /\ UNCHANGED fetchVars
       ELSE IF ~(TruthyStr(wr.urls[wr.i]) /\ NonBlank(wr.urls[wr.i]))
       THEN wr' = [wr EXCEPT !.i = wr.i + 1] /\ UNCHANGED fetchVars
       ELSE /\ wr' = [wr EXCEPT !.pc = "validate", !.url = Strip(wr.urls[wr.i]),
                                !.content = None]
            /\ fetchPc' = "idle" /\ attempt' = 0 /\ trace' = << >> /\ fetched' = Pending
    /\ UNCHANGED << classifyVars, routerVars, apiVars, writingVars, veoVars, extractVars, chartVars >>

\* the URL is requested whatever its scheme and network location
FetchUrlValidate_without_test ==
    /\ wr.pc = "validate"
    /\ LET parsed == urlparse(wr.url)
       IN  IF parsed.raised # None
           THEN /\ wr' = [wr EXCEPT !.pc = "fetched", !.content = None]
                /\ UNCHANGED fetchVars
           ELSE /\ wr' = [wr EXCEPT !.pc = "fetching"]
                /\ fetchPc' = "request"
                /\ UNCHANGED << attempt, trace, fetched >>
    /\ UNCHANGED << classifyVars, routerVars, apiVars, writingVars, veoVars, extractVars, chartVars >>

\* fetch_url_content, lines 369-378: URL validation, then _fetch_with_retry
FetchUrlValidate ==
    /\ wr.pc = "validate"
    /\ LET parsed == urlparse(wr.url)
       IN  IF parsed.raised # None \/ parsed.scheme = "" \/ parsed.netloc = ""
           THEN /\ wr' = [wr EXCEPT !.pc = "fetched", !.content = None]
                /\ UNCHANGED fetchVars
           ELSE /\ wr' = [wr EXCEPT !.pc = "fetching"]
                /\ fetchPc' = "request"
                /\ UNCHANGED << attempt, trace, fetched >>
    /\ UNCHANGED << classifyVars, routerVars, apiVars, writingVars, veoVars, extractVars, chartVars >>

\* fetch_url_content, lines 379-524: no response, or parsing and selection
FetchUrlParse ==
    /\ wr.pc = "fetching"
    /\ fetchPc = "done"
    /\ IF fetched = None
       THEN wr' = [wr EXCEPT !.pc = "fetched", !.content = None]
       ELSE \E o \in ParseOutcomes :
               wr' = [wr EXCEPT !.pc = "fetched",
                                !.content = IF Raised(o) THEN None ELSE o]
    /\ UNCHANGED << fetchVars, classifyVars, routerVars, apiVars, writingVars, veoVars, extractVars, chartVars >>

\* fetch_and_extract, lines 639-654, and results.append of line 672
FetchAndExtract ==
    /\ wr.pc = "fetched"
    /\ IF ~TruthyStr(wr.content)
       THEN IF urlparse(wr.url).raised # None
            THEN wr' = [wr EXCEPT !.pc = "raised", !.raised = urlparse(wr.url).raised]
            ELSE wr' = [wr EXCEPT !.pc = "loop", !.i = wr.i + 1,
                                  !.results = Append(wr.results, FetchFailed(wr.url)),
                                  !.log = Append(wr.log, Handled(wr.url, None, NoCall))]
       ELSE \E run \in extract_facts_from_content(wr.content, Topic, wr.url) :
               IF run.raised # None
               THEN wr' = [wr EXCEPT !.pc = "raised", !.raised = run.raised]
               ELSE wr' = [wr EXCEPT !.pc = "loop", !.i = wr.i + 1,
                                     !.results = Append(wr.results, run.result),
                                     !.log = Append(wr.log,
                                                Handled(wr.url, wr.content, run.response))]
    /\ UNCHANGED << fetchVars, classifyVars, routerVars, apiVars, writingVars, veoVars, extractVars, chartVars >>

(***************************************************************************)
(* draft_linkedin_post (writing_engine.py)                                 *)
(***************************************************************************)
BANNED_PHRASES ==
    << "in today's rapidly evolving",
       "in an era where",
       "let's dive into",
       "let's unpack",
       "here's the thing",
       "at the end of the day",
       "the bottom line is",
       "excited to announce",
       "thrilled to share",
       "leverage synergies",
       "game-changer",
       "best practices",
       "deep dive" >>

\* Optional[list]: None, or a list
NoList == [given |-> FALSE, items |-> << >>]
List(items) == [given |-> TRUE, items |-> items]

DataSource(dataPoint, value, sourceType, sourceDescription) ==
    [dataPoint |-> dataPoint, value |-> value, sourceType |-> sourceType,
     sourceDescription |-> sourceDescription]

\* the inner loop of _format_research_for_prompt
RECURSIVE KeyFacts(_, _, _)
KeyFacts(facts, i, source_name) ==
    IF i > Len(facts) THEN ""
    ELSE "  - [" \o facts[i].type \o "] " \o facts[i].fact
         \o "\n    Citation: According to " \o source_name \o "\n"
         \o KeyFacts(facts, i + 1, source_name)

\* the outer loop of _format_research_for_prompt
RECURSIVE ResearchSections(_, _)
ResearchSections(results, i) ==
    IF i > Len(results) THEN << >>
    ELSE LET result == results[i]
             skip == result.error \/ (result.extracted_facts = << >> /\ result.summary = "")
             section == "\n--- SOURCE: " \o result.source_name \o " (" \o result.url \o ") ---\n"
                        \o (IF result.summary # ""
                            THEN "Summary: " \o result.summary \o "\n" ELSE "")
                        \o (IF result.extracted_facts # << >>
                            THEN "Key Facts:\n"
                                 \o KeyFacts(result.extracted_facts, 1, result.source_name)
                            ELSE "")
         IN  (IF skip THEN << >> ELSE << section >>) \o ResearchSections(results, i + 1)

_format_research_for_prompt(research_data) ==
    IF ~TruthyList(research_data) THEN ""
    ELSE LET sections == ResearchSections(research_data.results, 1)
         IN  IF sections = << >> THEN ""
             ELSE "\n\nRESEARCH DATA FROM PROVIDED URLS:\n" \o Join(sections, 1) \o "\n"

source_type_labels(source_type) ==
    CASE source_type = "personal" -> "Personal knowledge/experience"
      [] source_type = "client" -> "Client data (confidential)"
      [] source_type = "industry_report" -> "Industry report"
      [] source_type = "web_source" -> "Web source"
      [] source_type = "illustrative" -> "Illustrative/example data (NOT real)"
      [] OTHER -> source_type

\* the loop of _format_data_sources_for_prompt
RECURSIVE SourceLines(_, _)
SourceLines(sources, i) ==
    IF i > Len(sources) THEN << >>
    ELSE LET source == sources[i]
             line == "  - " \o source.dataPoint \o ": " \o source.value
                     \o " (Source: " \o source_type_labels(source.sourceType)
                     \o (IF source.sourceDescription # ""
                         THEN " - " \o source.sourceDescription ELSE "")
                     \o ")"
                     \o (IF source.sourceType = "illustrative"
                         THEN " [WARNING: This is illustrative data, not real]" ELSE "")
         IN  << line >> \o SourceLines(sources, i + 1)

_format_data_sources_for_prompt(data_sources) ==
    IF ~(data_sources.given /\ data_sources.items # << >>) THEN ""
    ELSE "\n\nDATA SOURCES PROVIDED:\n" \o Join(SourceLines(data_sources.items, 1), 1) \o "\n"

CitationInstructions == "\nCITATION REQUIREMENTS (since research URLs were provided):\n"
IllustrativeWarning == "\nWARNING: Some data is marked as ILLUSTRATIVE (not real).\n"

\* a prompt, by the parts of it that vary, and the sampling temperature
Prompt(kind, raw_idea, author, research_section, sources_section, citation_instructions, illustrative_warning, detected_phrase, temperature) ==
    [kind |-> kind, raw_idea |-> raw_idea, author |-> author,
     research_section |-> research_section, sources_section |-> sources_section,
     citation_instructions |-> citation_instructions,
     illustrative_warning |-> illustrative_warning,
     detected_phrase |-> detected_phrase, temperature |-> temperature]

\* lines 121-201
style_guide(raw_idea, author, research_data, data_sources) ==
    Prompt("style_guide", raw_idea, author,
           _format_research_for_prompt(research_data),
           _format_data_sources_for_prompt(data_sources),
           IF TruthyList(research_data) THEN CitationInstructions ELSE "",
           IF /\ data_sources.given
              /\ \E i \in DOMAIN data_sources.items :
                    data_sources.items[i].sourceType = "illustrative"
           THEN IllustrativeWarning ELSE "",
           "", "0.7")

\* the regeneration prompt carrying the citation instructions of the first
regenerate_prompt_with_citations(raw_idea, author, detected_phrase) ==
    Prompt("regenerate_prompt", raw_idea, author, "", "", CitationInstructions, "",
           detected_phrase, "0.8")

\* lines 228-241
regenerate_prompt(raw_idea, author, detected_phrase) ==
    Prompt("regenerate_prompt", raw_idea, author, "", "", "", "", detected_phrase, "0.8")

\* texts the model can answer with
ModelDrafts ==
    { "Stockouts cost more than the markdowns you fear.",
      "  Most planners never see the shelf.\n",
      "Let's Dive Into safety stock.",
      "At the end of the day it's a GAME-CHANGER.",
      "A game-changer? Let's unpack that.\n",
      "No deep dives. Just count the shelf." }

ModelCall(prompt, response) == [prompt |-> prompt, response |-> response]

\* the first phrase of BANNED_PHRASES, in list order, found in the text
FirstBanned(draft_lower) ==
    LET found == { i \in DOMAIN BANNED_PHRASES : IsSubstring(BANNED_PHRASES[i], draft_lower) }
    IN  IF found = {} THEN None
        ELSE BANNED_PHRASES[CHOOSE i \in found : \A j \in found : i <= j]

WD(pc, raw_idea, author, research_data, data_sources, calls, draft, result) ==
    [pc |-> pc, raw_idea |-> raw_idea, author |-> author, research_data |-> research_data,
     data_sources |-> data_sources, calls |-> calls, draft |-> draft, result |-> result]

WDIdle == WD("idle", "", "", NoResearch, NoList, << >>, None, None)

\* the inputs of draft_linkedin_post
W_research ==
    Research(<< ResearchRecord("https://www.example.com/a?b", "example.com",
                               << Fact("Revenue grew 40%", "statistic") >>,
                               "Growth report", 8, FALSE),
                ResearchRecord("http://x", "x", << >>,
                               "Failed to fetch content from URL", 0, TRUE) >>)

W_sources ==
    List(<< DataSource("Inventory turns", "4.2 to 7.8", "client", "Q3 review"),
            DataSource("Cost per pallet", "$12", "illustrative", "") >>)

WritingInputs ==
    { WD("start", idea, "Mike", rd, ds, << >>, None, None) :
        idea \in {"Retailers count inventory they cannot sell"},
        rd \in {NoResearch, Research(<< >>), W_research},
        ds \in {NoList, W_sources} }

\* draft_linkedin_post, lines 121-211: the prompt and the first model call
DraftFirstCall ==
    /\ wd.pc = "start"
    /\ LET prompt == style_guide(wd.raw_idea, wd.author, wd.research_data, wd.data_sources)
       IN  \/ \E text \in ModelDrafts :
                wd' = [wd EXCEPT !.pc = "validate", !.draft = Strip(text),
                                 !.calls = Append(wd.calls, ModelCall(prompt, text))]
           \/ wd' = [wd EXCEPT !.pc = "raised", !.result = Raise("APIError"),
                               !.calls = Append(wd.calls, ModelCall(prompt, Raise("APIError")))]
    /\ UNCHANGED << classifyVars, routerVars, apiVars, fetchVars, researchVars, veoVars, extractVars, chartVars >>

\* the scan made on the draft as written, not on draft.lower()
DraftValidate_case_sensitive ==
    /\ wd.pc = "validate"
    /\ LET phrase == FirstBanned(wd.draft)
       IN  IF phrase = None
           THEN wd' = [wd EXCEPT !.pc = "returned", !.result = wd.draft]
           ELSE LET prompt == regenerate_prompt(wd.raw_idea, wd.author, phrase)
                IN  \/ \E text \in ModelDrafts :
                         wd' = [wd EXCEPT !.pc = "returned", !.draft = Strip(text),
                                          !.result = Strip(text),
                                          !.calls = Append(wd.calls, ModelCall(prompt, text))]
                    \/ wd' = [wd EXCEPT !.pc = "raised", !.result = Raise("APIError"),
                                        !.calls = Append(wd.calls,
                                                     ModelCall(prompt, Raise("APIError")))]
    /\ UNCHANGED << classifyVars, routerVars, apiVars, fetchVars, researchVars, veoVars, extractVars, chartVars >>

\* draft_linkedin_post, lines 213-221, with _regenerate_without_banned_phrases
DraftValidate ==
    /\ wd.pc = "validate"
    /\ LET phrase == FirstBanned(Lower(wd.draft))
       IN  IF phrase = None
           THEN wd' = [wd EXCEPT !.pc = "returned", !.result = wd.draft]
           ELSE LET prompt == regenerate_prompt(wd.raw_idea, wd.author, phrase)
                IN  \/ \E text \in ModelDrafts :
                         wd' = [wd EXCEPT !.pc = "returned", !.draft = Strip(text),
                                          !.result = Strip(text),
                                          !.calls = Append(wd.calls, ModelCall(prompt, text))]
                    \/ wd' = [wd EXCEPT !.pc = "raised", !.result = Raise("APIError"),
                                        !.calls = Append(wd.calls,
                                                     ModelCall(prompt, Raise("APIError")))]
    /\ UNCHANGED << classifyVars, routerVars, apiVars, fetchVars, researchVars, veoVars, extractVars, chartVars >>

(***************************************************************************)
(* generate_veo_video: the polling loop (image_router.py)                  *)
(***************************************************************************)
max_polls == 30

\* time.sleep(10)
poll_wait == 10

Veo(pc, done, poll_count, waited, outcome, result) ==
    [pc |-> pc, done |-> done, poll_count |-> poll_count, waited |-> waited,
     outcome |-> outcome, result |-> result]

VeoNotStarted == Veo("idle", FALSE, 0, 0, Pending, Pending)

\* lines 450-484: credential test, client, generate_videos; the operation
\* comes back done or not
VeoStart ==
    /\ veo.pc = "start"
    /\ \/ \E o \in {"no credential", "exception"} :
             veo' = [veo EXCEPT !.pc = "returned", !.outcome = o, !.result = None]
       \/ \E done \in BOOLEAN :
             veo' = [veo EXCEPT !.pc = "loop", !.done = done, !.poll_count = 0]
    /\ UNCHANGED << classifyVars, routerVars, apiVars, fetchVars, researchVars, writingVars, extractVars, chartVars >>

\* the loop polling once more than max_polls allows
VeoPoll_one_more ==
    /\ veo.pc = "loop"
    /\ ~veo.done /\ veo.poll_count <= max_polls
    /\ \/ \E done \in BOOLEAN :
             veo' = [veo EXCEPT !.waited = veo.waited + poll_wait, !.done = done,
                                !.poll_count = veo.poll_count + 1]
       \/ veo' = [veo EXCEPT !.waited = veo.waited + poll_wait, !.pc = "returned",
                             !.outcome = "exception", !.result = None]
    /\ UNCHANGED << classifyVars, routerVars, apiVars, fetchVars, researchVars, writingVars, extractVars, chartVars >>

\* lines 485-489: one iteration of the while loop: sleep, then
\* client.operations.get, which gives the flag or raises (line 539)
VeoPoll ==
    /\ veo.pc = "loop"
    /\ ~veo.done /\ veo.poll_count < max_polls
    /\ \/ \E done \in BOOLEAN :
             veo' = [veo EXCEPT !.waited = veo.waited + poll_wait, !.done = done,
                                !.poll_count = veo.poll_count + 1]
       \/ veo' = [veo EXCEPT !.waited = veo.waited + poll_wait, !.pc = "returned",
                             !.outcome = "exception", !.result = None]
    /\ UNCHANGED << classifyVars, routerVars, apiVars, fetchVars, researchVars, writingVars, extractVars, chartVars >>

\* lines 491-543: after the loop: timeout, or the video taken from the response
VeoFinish ==
    /\ veo.pc = "loop"
    /\ ~(~veo.done /\ veo.poll_count < max_polls)
    /\ IF ~veo.done
       THEN veo' = [veo EXCEPT !.pc = "returned", !.outcome = "timeout", !.result = None]
       ELSE \/ \E o \in {"video bytes", "downloaded"} :
                 veo' = [veo EXCEPT !.pc = "returned", !.outcome = o, !.result = VeoURI]
            \/ \E o \in {"no video", "download failed", "exception"} :
                 veo' = [veo EXCEPT !.pc = "returned", !.outcome = o, !.result = None]
    /\ UNCHANGED << classifyVars, routerVars, apiVars, fetchVars, researchVars, writingVars, extractVars, chartVars >>

(***************************************************************************)
(* generate_chart: the generated code run against matplotlib.pyplot        *)
(***************************************************************************)
MaxCharts == 3

\* a figure of pyplot's figure manager: the call that opened it and the calls
\* whose code drew on it
Figure(owner, marks) == [owner |-> owner, marks |-> marks]

NoImage == [source |-> "none", marks |-> << >>]

\* the generated code, statement by statement: plt.subplots() opens a figure
\* and makes it current, plt.plot() and the like draw on the current figure
\* (pyplot opens one when there is none), and a statement may raise
GeneratedCodes ==
    { << "subplots", "plot" >>,
      << "plot" >>,
      << "subplots", "plot", "raise" >>,
      << "subplots", "plot", "subplots", "plot" >>,
      << "raise" >> }

Plt(pc, figs, calls, code, ip, image) ==
    [pc |-> pc, figs |-> figs, calls |-> calls, code |-> code, ip |-> ip, image |-> image]

\* pyplot as imported: no figure open
PltIdle == Plt("idle", << >>, 0, << >>, 1, NoImage)

\* plt.gcf(): the current figure, opened when there is none
gcf(figs, call) == IF figs = << >> THEN << Figure(call, << >>) >> ELSE figs

\* line 274: the model's code arrives
ChartCodeReceived ==
    /\ plt.pc = "idle"
    /\ plt.calls < MaxCharts
    /\ \E code \in GeneratedCodes :
          plt' = [plt EXCEPT !.pc = "exec", !.calls = plt.calls + 1, !.code = code,
                             !.ip = 1, !.image = NoImage]
    /\ UNCHANGED << classifyVars, routerVars, apiVars, fetchVars, researchVars, writingVars, veoVars, extractVars >>

\* line 279: exec(code, exec_globals), one statement of the code
ChartExecStatement ==
    /\ plt.pc = "exec"
    /\ plt.ip <= Len(plt.code)
    /\ LET statement == plt.code[plt.ip]
           open == gcf(plt.figs, plt.calls)
           last == Len(open)
       IN  plt' = IF statement = "raise"
                  THEN [plt EXCEPT !.pc = "except"]
                  ELSE IF statement = "subplots"
                  THEN [plt EXCEPT !.ip = plt.ip + 1,
                                   !.figs = Append(plt.figs, Figure(plt.calls, << >>))]
                  ELSE [plt EXCEPT !.ip = plt.ip + 1,
                                   !.figs = [open EXCEPT ![last].marks =
                                                Append(open[last].marks, plt.calls)]]
    /\ UNCHANGED << classifyVars, routerVars, apiVars, fetchVars, researchVars, writingVars, veoVars, extractVars >>

\* lines 281-289: the current figure is saved and closed
ChartRender ==
    /\ plt.pc = "exec"
    /\ plt.ip > Len(plt.code)
    /\ LET open == gcf(plt.figs, plt.calls)
           fig == open[Len(open)]
       IN  plt' = [plt EXCEPT !.pc = "idle",
                              !.image = [source |-> "figure", marks |-> fig.marks],
                              !.figs = SubSeq(open, 1, Len(open) - 1)]
    /\ UNCHANGED << classifyVars, routerVars, apiVars, fetchVars, researchVars, writingVars, veoVars, extractVars >>

\* lines 291-293: the exception is caught and the creative backend answers
ChartFallback ==
    /\ plt.pc = "except"
    /\ plt' = [plt EXCEPT !.pc = "idle", !.image = [source |-> "dalle", marks |-> << >>]]
    /\ UNCHANGED << classifyVars, routerVars, apiVars, fetchVars, researchVars, writingVars, veoVars, extractVars >>

(***************************************************************************)
(* Specifications                                                          *)
(***************************************************************************)
Unset == "<unset>"

ClassifyIdle == description = "" /\ category = Unset
RouterIdle   == gg = GGIdle
ApiIdle      == db = << >> /\ genLog = << >> /\ http = NoRequest
FetchIdle    == fetchPc = "idle" /\ attempt = 0 /\ trace = << >> /\ fetched = Pending
ResearchIdle == wr = WRIdle
WritingIdle  == wd = WDIdle
VeoIdle      == veo = VeoNotStarted
ExtractIdle  == ex = ExIdle
ChartIdle    == plt = PltIdle

\* ---- the classifier applied to a description ----
InitClassify ==
    /\ description \in Descriptions
    /\ category = Unset
    /\ RouterIdle /\ ApiIdle /\ FetchIdle
    /\ ResearchIdle /\ WritingIdle /\ VeoIdle /\ ExtractIdle /\ ChartIdle

ClassifyGraphicType ==
    /\ category = Unset
    /\ category' = classify_graphic_type(description)
    /\ UNCHANGED << description, routerVars, apiVars, fetchVars, researchVars, writingVars, veoVars, extractVars, chartVars >>

NextClassify == ClassifyGraphicType

SpecClassify == InitClassify /\ [][NextClassify]_vars

\* ---- the classifier called again, on the same words in any letter case ----
UpperOf ==
    [c \in { SubSeq(LowerLetters, i, i) : i \in 1..Len(LowerLetters) } |->
        LET i == CHOOSE j \in 1..Len(LowerLetters) : SubSeq(LowerLetters, j, j) = c
        IN  SubSeq(UpperLetters, i, i)]

SwapChar(c) ==
    IF c \in DOMAIN UpperOf THEN UpperOf[c]
    ELSE IF c \in DOMAIN LowerOf THEN LowerOf[c]
    ELSE c

RECURSIVE SwapCase(_)
SwapCase(s) ==
    IF Len(s) = 0 THEN ""
    ELSE SwapChar(SubSeq(s, 1, 1)) \o SwapCase(SubSeq(s, 2, Len(s)))

RECURSIVE UpperCase(_)
UpperCase(s) ==
    IF Len(s) = 0 THEN ""
    ELSE (LET c == SubSeq(s, 1, 1) IN IF c \in DOMAIN UpperOf THEN UpperOf[c] ELSE c)
             \o UpperCase(SubSeq(s, 2, Len(s)))

Respellings(d) == { d, SwapCase(d), UpperCase(d) }

ClassifyAgain ==
    /\ category # Unset
    /\ \E d \in Respellings(description) :
          /\ description' = d
          /\ category' = classify_graphic_type(d)
    /\ UNCHANGED << routerVars, apiVars, fetchVars, researchVars, writingVars, veoVars, extractVars, chartVars >>

NextClassifyCalls == ClassifyGraphicType \/ ClassifyAgain

SpecClassifyCalls == InitClassify /\ [][NextClassifyCalls]_vars

\* ---- one call of generate_graphic ----
InitRouter ==
    /\ gg \in { GG(d, t, cd, rd, FALSE, NotCalled) :
                  d \in RouterDescriptions, t \in GraphicTypeInputs,
                  cd \in ChartDataInputs, rd \in ResearchInputs }
    /\ ClassifyIdle /\ ApiIdle /\ FetchIdle
    /\ ResearchIdle /\ WritingIdle /\ VeoIdle /\ ExtractIdle /\ ChartIdle

GenerateGraphic ==
    /\ ~gg.done
    /\ \E run \in generate_graphic(gg.description, gg.graphic_type,
                                   gg.chart_data, gg.research_data) :
         gg' = [gg EXCEPT !.done = TRUE, !.run = run]
    /\ UNCHANGED << classifyVars, apiVars, fetchVars, researchVars, writingVars, veoVars, extractVars, chartVars >>

NextRouter == GenerateGraphic

SpecRouter == InitRouter /\ [][NextRouter]_vars

\* ---- the fetch loop on one URL ----
InitFetch ==
    /\ fetchPc = "request" /\ attempt = 0 /\ trace = << >> /\ fetched = Pending
    /\ ClassifyIdle /\ RouterIdle /\ ApiIdle
    /\ ResearchIdle /\ WritingIdle /\ VeoIdle /\ ExtractIdle /\ ChartIdle

NextFetch == FetchRequest \/ FetchSleep \/ FetchGiveUp

SpecFetch == InitFetch /\ [][NextFetch]_vars

\* ---- the API over the submissions table ----
InitResearch ==
    /\ wr \in { WR("loop", urls, 1, None, None, << >>, << >>, None) : urls \in UrlLists }
    /\ fetchPc = "idle" /\ attempt = 0 /\ trace = << >> /\ fetched = Pending
    /\ ClassifyIdle /\ RouterIdle /\ ApiIdle
    /\ WritingIdle /\ VeoIdle /\ ExtractIdle /\ ChartIdle

NextResearch ==
    \/ ProcessResearchUrls
    \/ FetchUrlValidate
    \/ FetchRequest
    \/ FetchSleep
    \/ FetchGiveUp
    \/ FetchUrlParse
    \/ FetchAndExtract

SpecResearch == InitResearch /\ [][NextResearch]_vars

InitVeo ==
    /\ veo = [VeoNotStarted EXCEPT !.pc = "start"]
    /\ ClassifyIdle /\ RouterIdle /\ ApiIdle /\ FetchIdle
    /\ ResearchIdle /\ WritingIdle /\ ExtractIdle /\ ChartIdle

NextVeo == VeoStart \/ VeoPoll \/ VeoFinish

SpecVeo == InitVeo /\ [][NextVeo]_vars

\* the interpreter runs the call to its end
SpecVeoFair == SpecVeo /\ WF_vars(NextVeo)

InitWriting ==
    /\ wd \in WritingInputs
    /\ ClassifyIdle /\ RouterIdle /\ ApiIdle /\ FetchIdle
    /\ ResearchIdle /\ VeoIdle /\ ExtractIdle /\ ChartIdle

NextWriting == DraftFirstCall \/ DraftValidate

SpecWriting == InitWriting /\ [][NextWriting]_vars

InitExtract ==
    /\ ex \in { Ex("parsed", page, page, "", "", "", NoNode, "", "", None) : page \in Pages }
    /\ ClassifyIdle /\ RouterIdle /\ ApiIdle /\ FetchIdle
    /\ ResearchIdle /\ WritingIdle /\ VeoIdle /\ ChartIdle

NextExtract ==
    \/ ExtractMetadata
    \/ RemoveBoilerplate
    \/ FindMainContent
    \/ ExtractText
    \/ AssembleContent

SpecExtract == InitExtract /\ [][NextExtract]_vars

\* ---- generate_chart called again and again in one process ----
InitChart ==
    /\ plt = PltIdle
    /\ ClassifyIdle /\ RouterIdle /\ ApiIdle /\ FetchIdle
    /\ ResearchIdle /\ WritingIdle /\ VeoIdle /\ ExtractIdle

NextChart == ChartCodeReceived \/ ChartExecStatement \/ ChartRender \/ ChartFallback

SpecChart == InitChart /\ [][NextChart]_vars

DraftOutcomes == { "<post text>", Raise("APIError") }

Init ==
    /\ db = << >> /\ genLog = << >> /\ http = NoRequest
    /\ RouterIdle /\ ClassifyIdle /\ FetchIdle
    /\ ResearchIdle /\ WritingIdle /\ VeoIdle /\ ExtractIdle /\ ChartIdle

Submit ==
    /\ \E f \in SubmitForms, draft \in DraftOutcomes :
         SubmitIdea(f.idea, f.graphic_description, f.graphic_type, f.chart_data,
                    f.research_results, f.image_file, draft)
    /\ UNCHANGED << classifyVars, fetchVars, researchVars, writingVars, veoVars, extractVars, chartVars >>

Regenerate ==
    /\ \E id \in 1..MaxSubmissions + 1, feedback \in Feedbacks :
         RegenerateImage(id, feedback)
    /\ UNCHANGED << classifyVars, fetchVars, researchVars, writingVars, veoVars, extractVars, chartVars >>

EditedPosts == { "<edited post>" }

SelectedImages == { "<variation 2>" }

Approve ==
    /\ \E id \in 1..MaxSubmissions + 1, edited_post \in EditedPosts :
         ApproveSubmission(id, edited_post)
    /\ UNCHANGED << classifyVars, fetchVars, researchVars, writingVars, veoVars, extractVars, chartVars >>

Reject ==
    /\ \E id \in 1..MaxSubmissions + 1 : RejectSubmission(id)
    /\ UNCHANGED << classifyVars, fetchVars, researchVars, writingVars, veoVars, extractVars, chartVars >>

Select ==
    /\ \E id \in 1..MaxSubmissions + 1, image_data \in SelectedImages :
         SelectVariation(id, image_data)
    /\ UNCHANGED << classifyVars, fetchVars, researchVars, writingVars, veoVars, extractVars, chartVars >>

ListPending ==
    /\ GetPending
    /\ UNCHANGED << classifyVars, fetchVars, researchVars, writingVars, veoVars, extractVars, chartVars >>

Next == Submit \/ Regenerate

Spec == Init /\ [][Next]_vars

\* ---- the API with the review operations ----
ReviewForms ==
    { Form("Inventory lesson", None, None, None, NoResearch, None),
      Form("Inventory lesson", "Bar chart of sales", "chart", CD_points, Research(<< R_stat >>), None),
      Form(None, "Warehouse at dusk", "conceptual", None, NoResearch, None) }

SubmitForReview ==
    /\ \E f \in ReviewForms, draft \in DraftOutcomes :
         SubmitIdea(f.idea, f.graphic_description, f.graphic_type, f.chart_data,
                    f.research_results, f.image_file, draft)
    /\ UNCHANGED << classifyVars, fetchVars, researchVars, writingVars, veoVars, extractVars, chartVars >>

RegenerateForReview ==
    /\ \E id \in 1..MaxSubmissions + 1 : RegenerateImage(id, "more contrast")
    /\ UNCHANGED << classifyVars, fetchVars, researchVars, writingVars, veoVars, extractVars, chartVars >>

NextReview ==
    SubmitForReview \/ RegenerateForReview \/ Approve \/ Reject \/ Select \/ ListPending

SpecReview == Init /\ [][NextReview]_vars

(***************************************************************************)
(* Properties                                                              *)
(***************************************************************************)
\* some keyword of the list occurs in s
HasKeyword(keywords, s) == \E i \in DOMAIN keywords : IsSubstring(keywords[i], s)

\* C1: classify_graphic_type(d) is the category of the first keyword list, in
\* the order video, infographic, chart, diagram, that has a keyword occurring
\* in lowercase(d), and "conceptual" when none has.  So a video keyword gives
\* "video" whatever else d holds, and a chart keyword without video and
\* infographic keywords gives "chart".
C1_FirstMatchingSetWins ==
    category # Unset =>
        LET s  == Lower(description)
            v  == HasKeyword(video_keywords, s)
            i  == HasKeyword(infographic_keywords, s)
            c  == HasKeyword(chart_keywords, s)
            dg == HasKeyword(diagram_keywords, s)
        IN  /\ v => category = "video"
            /\ ~v /\ i => category = "infographic"
            /\ ~v /\ ~i /\ c => category = "chart"
            /\ ~v /\ ~i /\ ~c /\ dg => category = "diagram"
            /\ ~v /\ ~i /\ ~c /\ ~dg => category = "conceptual"

\* a mixed-case description with a video and a chart keyword, classified video
C1_Witness ==
    /\ category = "video"
    /\ description # Lower(description)
    /\ HasKeyword(chart_keywords, Lower(description))

\* requested types for which generate_graphic is to classify
AutoRequests == { None, "", "auto", "none" }

\* the backend the dispatch table gives a resolved type
BackendFor(type) ==
    CASE type = "video"                -> "veo"
      [] type = "infographic"          -> "imagen"
      [] type \in {"chart", "diagram"} -> "chart"
      [] OTHER                         -> "dalle"

\* C2: generate_graphic classifies the description exactly when the requested
\* type is absent, empty, "auto" or "none"; any other requested value is the
\* resolved type and alone decides the backend.
C2_ClassifiesOnlyOnAuto ==
    gg.done =>
        /\ gg.run.classified <=> gg.graphic_type \in AutoRequests
        /\ gg.graphic_type \notin AutoRequests =>
              /\ gg.run.resolved = gg.graphic_type
              /\ gg.run.calls[1].backend = BackendFor(gg.graphic_type)

\* an explicit "conceptual" request for a description the classifier calls a chart
C2_Witness ==
    /\ gg.done
    /\ gg.graphic_type = "conceptual"
    /\ classify_graphic_type(gg.description) = "chart"
    /\ ~gg.run.classified
    /\ gg.run.calls[1].backend = "dalle"

\* outcomes after which a backend hands the request on
HandsOver(call) ==
    \/ call.backend = "chart" /\ call.outcome = "exec exception"
    \/ call.backend = "imagen" /\ call.outcome \in {"no credential", "no image", "exception"}

\* C3: every call of generate_graphic hands the request to exactly one primary
\* backend, fixed by the resolved type (video: video backend; infographic:
\* text-capable image backend; chart, diagram: chart-code backend; anything
\* else: creative image backend); a further call is only a hand-over.
C3_OnePrimaryBackend ==
    gg.done =>
        /\ Len(gg.run.calls) >= 1
        /\ gg.run.calls[1].backend = BackendFor(gg.run.resolved)
        /\ \A i \in 2..Len(gg.run.calls) : HandsOver(gg.run.calls[i - 1])

\* an unknown requested type goes to the creative image backend
C3_Witness ==
    /\ gg.done
    /\ gg.run.resolved = "photo"
    /\ Len(gg.run.calls) = 1
    /\ gg.run.calls[1].backend = "dalle"

\* C4: in the submit pipeline, with non-empty research results and a graphic
\* description, the research results reach the backend exactly when the
\* resolved type is chart, diagram or infographic; the creative and video
\* backends never receive them.
C4_ResearchReachesDataBackends ==
    (http.handler = "submit_idea" /\ http.status = 200 /\ gg.done
        /\ TruthyList(http.research_results)) =>
        /\ gg.run.calls[1].research_data = http.research_results
              <=> gg.run.resolved \in {"chart", "diagram", "infographic"}
        /\ \A i \in DOMAIN gg.run.calls :
              gg.run.calls[i].backend \in {"dalle", "veo"}
                  => gg.run.calls[i].research_data = NoResearch

\* C5: generate_graphic returns a data URI or None and never raises.
C5_NeverRaises ==
    gg.done => (IsDataURI(gg.run.result) \/ gg.run.result = None)

\* C6: when the chart backend's execution raises, or the infographic backend
\* has no credential, gets no image or raises, the result of generate_graphic
\* is what the creative image backend returns for the description the failed
\* backend was given.
C6_FallbackToCreative ==
    (gg.done /\ HandsOver(gg.run.calls[1])) =>
        /\ Len(gg.run.calls) = 2
        /\ gg.run.calls[2].backend = "dalle"
        /\ gg.run.calls[2].description = gg.run.calls[1].description
        /\ gg.run.calls[1].description = gg.description
        /\ gg.run.result = IF gg.run.calls[2].outcome = "image" THEN DalleURI ELSE None

\* the chart code raises and the creative backend fails as well
C6_Witness ==
    /\ gg.done
    /\ gg.run.calls[1].backend = "chart"
    /\ gg.run.calls[1].outcome = "exec exception"
    /\ Len(gg.run.calls) = 2
    /\ gg.run.result = None

\* C7: regeneration with feedback uses the resolved type of the submission's
\* original generation.
C7_RegenerationKeepsType ==
    (http.handler = "regenerate_image" /\ gg.done /\ genLog[http.id].generated) =>
        gg.run.resolved = genLog[http.id].resolved

\* chart_data carries data of the user: non-blank dataPoints, or a startValue
\* and an endValue (each a non-empty, non-zero value)
UserData(chart_data) ==
    /\ TruthyStr(chart_data)
    /\ LET j == json_loads(chart_data) IN
       /\ j.t = "dict"
       /\ \/ j.dataPoints.t = "str" /\ NonBlank(j.dataPoints.v)
          \/ Truthy(j.startValue) /\ Truthy(j.endValue)

\* research_data has a fact usable for charts
UsableFact(research_data) ==
    \E i \in DOMAIN research_data.results :
        /\ ~research_data.results[i].error
        /\ \E k \in DOMAIN research_data.results[i].extracted_facts :
              LET f == research_data.results[i].extracted_facts[k] IN
              f.type \in {"statistic", "finding", "trend"} /\ f.fact # ""

\* C8: the prompt of generate_chart carries the '(Illustrative example data)'
\* subtitle instruction exactly when the call has no real data: no user data
\* in chart_data and no research fact usable for charts.  Non-blank dataPoints:
\* never; no chart_data and no research facts: always.
C8_DisclaimerIffNoRealData ==
    (gg.done /\ gg.run.prompt.built) =>
        LET carried == IsSubstring("(Illustrative example data)",
                                   gg.run.prompt.subtitle_instruction)
        IN  /\ carried <=> ~(UserData(gg.chart_data) \/ UsableFact(gg.research_data))
            /\ gg.chart_data = CD_points => ~carried
            /\ (gg.chart_data = None /\ ~UsableFact(gg.research_data)) => carried

\* real data from research only: chart_data is not JSON, no disclaimer
C8_Witness ==
    /\ gg.done /\ gg.run.prompt.built
    /\ gg.chart_data = CD_text
    /\ UsableFact(gg.research_data)
    /\ gg.run.prompt.subtitle_instruction = ""

Requests == { i \in DOMAIN trace : trace[i] # "sleep" }
Sleeps   == { i \in DOMAIN trace : trace[i] = "sleep" }

\* the failures the retry loop is to retry
Transient == { "Timeout", "SSLError", "ConnectionError", "HTTP 500", "HTTP 503" }

\* C9: _fetch_with_retry makes at most 3 requests.  When every attempt ends
\* in a timeout, TLS error, connection error or 5xx it makes exactly 3, waits
\* only between attempts (twice, not after the last) and returns None; a
\* successful attempt is the last one and its response is returned.
C9_BoundedRetries ==
    /\ Cardinality(Requests) <= 3
    /\ \A i \in Sleeps : i > 1 /\ trace[i - 1] # "sleep" /\ (fetchPc = "done" => i < Len(trace))
    /\ (fetchPc = "done" /\ \A i \in Requests : trace[i] \in Transient) =>
          /\ Cardinality(Requests) = 3
          /\ Cardinality(Sleeps) = 2
          /\ fetched = None
    /\ \A i \in Requests : trace[i] \in Successes =>
          /\ i = Len(trace)
          /\ fetchPc = "done"
          /\ fetched = trace[i]

\* three transient failures in a row
C9_Witness ==
    /\ fetchPc = "done"
    /\ trace = << "Timeout", "sleep", "HTTP 503", "sleep", "SSLError" >>
    /\ fetched = None

\* C10: a 4xx response ends the fetch: no further attempt, no delay, on
\* whichever attempt it comes; on the first attempt that is one request in
\* total and the result None.
C10_ClientErrorAborts ==
    \A i \in DOMAIN trace : trace[i] \in ClientErrors =>
        /\ i = Len(trace)
        /\ fetchPc \in {"break", "done"}
        /\ fetchPc = "done" => fetched = None
        /\ i = 1 => Cardinality(Requests) = 1 /\ Cardinality(Sleeps) = 0

\* a 404 on the first attempt
C10_Witness ==
    /\ fetchPc = "done"
    /\ trace = << "HTTP 404" >>
    /\ fetched = None

(***************************************************************************)
(* Web research: fetch_url_content, fetch_and_extract,                     *)
(* extract_facts_from_content, process_research_urls                       *)
(***************************************************************************)
InvalidUrl(url) ==
    urlparse(url).raised # None \/ urlparse(url).scheme = "" \/ urlparse(url).netloc = ""

\* C11: fetch_url_content never raises to its caller: every step out of it
\* is a return; for a URL without scheme or host it returns None and no
\* request has been made; when every attempt failed it returns None; an
\* exception while parsing or selecting content gives None as well.
C11_FetchUrlContentNeverRaises ==
    [][ /\ (wr.pc = "validate" /\ wr'.pc # "validate")
            => wr'.pc \in {"fetching", "fetched"}
        /\ (wr.pc = "validate" /\ InvalidUrl(wr.url))
            => (wr'.pc = "fetched" /\ wr'.content = None /\ trace' = << >>)
        /\ (wr.pc = "fetching" /\ wr'.pc # "fetching")
            => (wr'.pc = "fetched" /\ (fetched = None => wr'.content = None)) ]_vars

\* an invalid URL answered with None and no request, and a failed fetch
\* answered with None
C11_Witness ==
    /\ wr.pc = "fetched" /\ wr.content = None
    /\ \/ InvalidUrl(wr.url) /\ trace = << >>
       \/ fetched = None /\ Len(trace) = 2 * MAX_RETRIES - 1

FailureRecord(url) ==
    [url |-> url, source_name |-> SourceName(url), extracted_facts |-> << >>,
     summary |-> "Failed to fetch content from URL", relevance_score |-> 0, error |-> TRUE]

\* C12: when the fetch of a URL fails, fetch_and_extract returns exactly the
\* failure record (url, source_name, no facts, the fixed summary, relevance 0,
\* error true) and makes no model call for that URL; process_research_urls of
\* that one URL returns the list holding that record.
C12_FetchFailureRecord ==
    [][ (wr.pc = "fetched" /\ wr.content = None)
            => /\ wr'.pc = "loop"
               /\ wr'.results = Append(wr.results, FailureRecord(wr.url))
               /\ wr'.log = Append(wr.log, Handled(wr.url, None, NoCall)) ]_vars

NotJson(response) ==
    /\ response # NoCall
    /\ ~Raised(response)
    /\ json_loads_facts(JsonStr(response)).t = "JSONDecodeError"

\* C13: a model response that is not JSON, after a code fence is stripped,
\* gives a record with no facts, the first 500 characters of the raw
\* response as summary and relevance 5; the call returns.
C13_NonJsonDegrades ==
    \A k \in DOMAIN wr.log :
        NotJson(wr.log[k].response)
            => /\ k \in DOMAIN wr.results
               /\ wr.results[k].extracted_facts = << >>
               /\ wr.results[k].summary = Prefix(wr.log[k].response, 500)
               /\ wr.results[k].relevance_score = 5

\* a non-JSON answer longer than 500 characters, and a fenced one
C13_Witness ==
    /\ \E k \in DOMAIN wr.log :
          /\ NotJson(wr.log[k].response)
          /\ Len(wr.log[k].response) > 500
          /\ Len(wr.results[k].summary) = 500
    /\ \E k \in DOMAIN wr.log :
          /\ NotJson(wr.log[k].response)
          /\ IsSubstring(Fence, wr.log[k].response)

RECURSIVE TrimmedNonBlank(_)
TrimmedNonBlank(urls) ==
    IF urls = << >> THEN << >>
    ELSE IF Strip(Head(urls)) = "" THEN TrimmedNonBlank(Tail(urls))
    ELSE << Strip(Head(urls)) >> \o TrimmedNonBlank(Tail(urls))

\* C15: process_research_urls ends by returning one result per non-blank
\* input URL, in input order, each with the trimmed URL; blank URLs give no
\* entry; a failure on one URL leaves the results of the others in the list.
C15_OneResultPerUrl ==
    wr.pc \in {"returned", "raised"}
        => /\ wr.pc = "returned"
           /\ [k \in DOMAIN wr.results |-> wr.results[k].url] = TrimmedNonBlank(wr.urls)

\* C19: every record returned carries the input URL and the URL's network
\* location without 'www.', on the JSON path, the parse-failure path, the
\* model-exception path and the fetch-failure path, whatever url or
\* source_name the model's answer held.
C19_SourceStamped ==
    \A k \in DOMAIN wr.results :
        /\ wr.results[k].url = wr.log[k].url
        /\ wr.results[k].source_name = Remove(urlparse(wr.log[k].url).netloc, "www.")

\* the JSON path with an answer that names another source, next to the
\* fetch-failure path
C19_Witness ==
    /\ wr.pc = "returned"
    /\ \E k \in DOMAIN wr.log :
          /\ wr.log[k].response \in ModelResponses
          /\ json_loads_facts(JsonStr(wr.log[k].response)).url = "http://other.example/"
          /\ wr.results[k].url = "https://www.example.com/a?b"
          /\ wr.results[k].source_name = "example.com"
    /\ \E k \in DOMAIN wr.log : wr.log[k].content = None

\* outcomes of a backend call that produced nothing
FailedOutcome(call) ==
    call.outcome \in {"no credential", "timeout", "no video", "no image",
                      "download failed", "exception"}

\* C17: the video backend and the creative image backend never hand over: a
\* call to either is the last call, and when it fails the result is None.  One
\* generate_graphic call makes at most two backend calls, and a second call
\* is always to the creative image backend.
C17_NoHandOverFromVideoOrCreative ==
    gg.done =>
        /\ Len(gg.run.calls) \in 1..2
        /\ Len(gg.run.calls) = 2 => gg.run.calls[2].backend = "dalle"
        /\ \A i \in DOMAIN gg.run.calls :
              gg.run.calls[i].backend \in {"veo", "dalle"}
                  => /\ i = Len(gg.run.calls)
                     /\ FailedOutcome(gg.run.calls[i]) => gg.run.result = None

\* a video request that timed out: one call, no result
C17_Witness ==
    /\ gg.done
    /\ gg.run.calls = << Call("veo", gg.description, NoResearch, "timeout") >>
    /\ gg.run.result = None

\* C18: with usable user chart_data and research data with usable facts, the
\* data instruction of the chart prompt holds the user's values only, the call
\* counts as having real data, and no research fact is in the prompt.
C18_UserDataBeatsResearch ==
    (gg.done /\ gg.run.prompt.built /\ UserData(gg.chart_data) /\ UsableFact(gg.research_data)) =>
        LET data == json_loads(gg.chart_data)
            instruction == gg.run.prompt.data_instruction
        IN  /\ gg.run.prompt.has_real_data
            /\ IsSubstring("(user-provided)", instruction)
            /\ \/ IsSubstring(data.dataPoints.v, instruction) /\ NonBlank(data.dataPoints.v)
               \/ /\ IsSubstring("Start value: " \o data.startValue.v, instruction)
                  /\ IsSubstring("End value: " \o data.endValue.v, instruction)
            /\ ~IsSubstring("RESEARCH SOURCES", instruction)
            /\ \A r \in DOMAIN gg.research_data.results :
                 \A k \in DOMAIN gg.research_data.results[r].extracted_facts :
                    LET text == gg.research_data.results[r].extracted_facts[k].fact
                    IN  text # "" => ~IsSubstring(text, instruction)

\* start and end value from the user, a statistic from research
C18_Witness ==
    /\ gg.done /\ gg.run.prompt.built
    /\ gg.chart_data = CD_startend
    /\ UsableFact(gg.research_data)
    /\ gg.run.prompt.has_real_data
    /\ IsSubstring("Start value", gg.run.prompt.data_instruction)

\* C16: generate_veo_video polls the completion flag at most 30 times, waits
\* 10 seconds before each poll, polls no more once the flag is seen set,
\* returns None without raising when the flag is unset after the 30th poll,
\* and always comes to an end.
C16_PollingBounded ==
    /\ [](/\ veo.poll_count <= 30
          /\ veo.waited \in {10 * veo.poll_count, 10 * (veo.poll_count + 1)}
          /\ veo.waited = 10 * (veo.poll_count + 1) => veo.outcome = "exception"
          /\ (veo.pc = "returned" /\ veo.outcome = "timeout")
                => (veo.poll_count = 30 /\ ~veo.done /\ veo.result = None)
          /\ (veo.pc = "returned" /\ ~veo.done /\ veo.poll_count = 30 /\ veo.outcome # "exception")
                => veo.outcome = "timeout")
    /\ [][(veo.pc = "loop" /\ veo.done) => veo'.poll_count = veo.poll_count]_vars
    /\ <>(veo.pc = "returned")

\* thirty polls made, the flag still unset: None
C16_Witness ==
    /\ veo.pc = "returned"
    /\ veo.outcome = "timeout"
    /\ veo.poll_count = 30 /\ veo.waited = 300
    /\ veo.result = None

\* a text holds a banned phrase, whatever the letter case
HoldsBanned(text) ==
    \E i \in DOMAIN BANNED_PHRASES : IsSubstring(BANNED_PHRASES[i], Lower(text))

\* C14: draft_linkedin_post makes one model call and returns its text when
\* the first draft holds no banned phrase (letter case ignored); otherwise it
\* makes exactly one regeneration call and returns that call's text unchecked.
\* No execution makes more than two model calls.
C14_OneRegeneration ==
    /\ Len(wd.calls) <= 2
    /\ wd.pc = "returned" =>
          /\ Len(wd.calls) >= 1
          /\ wd.calls[1].prompt.kind = "style_guide"
          /\ IF HoldsBanned(wd.calls[1].response)
             THEN /\ Len(wd.calls) = 2
                  /\ wd.calls[2].prompt.kind = "regenerate_prompt"
                  /\ wd.result = Strip(wd.calls[2].response)
             ELSE /\ Len(wd.calls) = 1
                  /\ wd.result = Strip(wd.calls[1].response)

\* a regeneration that holds a banned phrase again is returned as it is
C14_Witness ==
    /\ wd.pc = "returned"
    /\ Len(wd.calls) = 2
    /\ wd.calls[1].response = "Let's Dive Into safety stock."
    /\ HoldsBanned(wd.result)

\* ---- the assembled text, before truncation ----
TruncationMarker == "\n[Content truncated...]"

\* title + main content + table data + image captions, as lines 499-510 put
\* them together
Assembled ==
    (IF ex.page_title # "" THEN "TITLE: " \o ex.page_title \o "\n\n" ELSE "")
    \o "MAIN CONTENT:\n" \o ex.text
    \o (IF ex.tables_text # "" THEN "\n\n" \o ex.tables_text ELSE "")
    \o (IF ex.image_text # "" THEN "\n\n" \o ex.image_text ELSE "")

EndsWithMarker(s) ==
    /\ Len(s) >= Len(TruncationMarker)
    /\ SubSeq(s, Len(s) - Len(TruncationMarker) + 1, Len(s)) = TruncationMarker

\* the article elements of the page that are outside boilerplate regions,
\* boilerplate descendants removed
Articles == find_all(RemoveUnwanted(ex.page), {"article"})

\* the text of an element as fetch_url_content hands it on
TextOf(element) == JoinWith(NonEmptyLines(get_text(element, "\n")), "\n")

\* the strings of the page that are not in the element
OutsideStrings(element) ==
    Range(StrippedStrings(Flatten(<< ex.page >>)))
        \ Range(StrippedStrings(Flatten(<< element >>)))

\* C20, as stated: for every article element of the page with more than 200
\* characters of non-boilerplate text, the main content returned is that
\* article's text, and no text of the markup around the article is in it.
C20_ArticleIsMainContent ==
    ex.pc = "returned" =>
        \A i \in DOMAIN Articles :
            Len(TextOf(Articles[i])) > 200
                => /\ ex.text = TextOf(Articles[i])
                   /\ \A s \in OutsideStrings(Articles[i]) : ~IsSubstring(s, ex.text)

\* C20, amended: when the first article element outside boilerplate regions
\* has at least 200 characters of text, boilerplate descendants removed, that
\* text is the main content returned and no text from outside the article is
\* in it; later article elements are not looked at.
C20_FirstArticleIsMainContent ==
    (ex.pc = "returned" /\ Articles # << >> /\ Len(TextOf(Head(Articles))) >= 200) =>
        /\ ex.text = TextOf(Head(Articles))
        /\ ex.extraction_method = "article tag"
        /\ Len(Assembled) <= 8000 => IsSubstring("MAIN CONTENT:\n" \o ex.text, ex.result)
        /\ \A s \in OutsideStrings(Head(Articles)) : ~IsSubstring(s, ex.text)

\* an article inside a main element that also holds an aside without class
\* or id: the aside is still in the document, and not in the main content
C20_Witness ==
    /\ ex.pc = "returned"
    /\ Articles # << >>
    /\ ex.text = ArticleText \/ ex.text = Strip(ArticleText)
    /\ find(ex.soup, "aside") # NoNode
    /\ find(ex.soup, "main") # NoNode
    /\ ~IsSubstring(AsideText, ex.result)

\* C30: the prompt of the regeneration holds the raw idea, the author and the
\* detected phrase only: the research section, the data sources, the citation
\* instructions and the illustrative-data warning of the first prompt are
\* absent from it, whatever research and data sources were supplied.
C30_RegenerationPromptBare ==
    \A k \in DOMAIN wd.calls :
        wd.calls[k].prompt.kind = "regenerate_prompt" =>
            /\ k = 2
            /\ wd.calls[k].prompt.raw_idea = wd.raw_idea
            /\ wd.calls[k].prompt.author = wd.author
            /\ wd.calls[k].prompt.detected_phrase = FirstBanned(Lower(wd.calls[1].response))
            /\ wd.calls[k].prompt.research_section = ""
            /\ wd.calls[k].prompt.sources_section = ""
            /\ wd.calls[k].prompt.citation_instructions = ""
            /\ wd.calls[k].prompt.illustrative_warning = ""
            /\ wd.pc = "returned" => wd.result = Strip(wd.calls[k].response)

\* research and illustrative data sources were supplied and reached the first
\* prompt; the returned text comes from the regeneration
C30_Witness ==
    /\ wd.pc = "returned"
    /\ Len(wd.calls) = 2
    /\ wd.calls[1].prompt.research_section # ""
    /\ wd.calls[1].prompt.sources_section # ""
    /\ wd.calls[1].prompt.citation_instructions # ""
    /\ wd.calls[1].prompt.illustrative_warning # ""
    /\ wd.calls[2].prompt.detected_phrase = "let's unpack"

\* ---- C23 ----
\* two spellings of the same words: equal length, and each position holds the
\* same character or the two cases of one letter
SameLetters(a, b) ==
    /\ Len(a) = Len(b)
    /\ \A i \in 1..Len(a) :
          \/ SubSeq(a, i, i) = SubSeq(b, i, i)
          \/ \E j \in 1..Len(UpperLetters) :
                { SubSeq(a, i, i), SubSeq(b, i, i) } =
                    { SubSeq(UpperLetters, j, j), SubSeq(LowerLetters, j, j) }

\* C23: classify_graphic_type is pure, deterministic and case-insensitive: a
\* call on a description that is the previous one up to letter case (the
\* same description included) returns the category the previous call returned,
\* and no call changes anything but the value it returns.
C23_ClassifierPure ==
    [][ /\ (category # Unset /\ category' # Unset /\ SameLetters(description, description'))
            => category' = category
        /\ category' # Unset => category' \in {"video", "infographic", "chart", "diagram", "conceptual"}
        /\ UNCHANGED << routerVars, apiVars, fetchVars, researchVars, writingVars, veoVars, extractVars, chartVars >>
      ]_vars

C23_Witness ==
    /\ category \in {"video", "infographic", "chart", "diagram"}
    /\ description \notin Descriptions
    /\ description # Lower(description)

\* ---- C21 ----
\* C21: the returned text is never longer than 8000 characters plus the
\* marker; the marker is appended exactly when the assembled text exceeds
\* 8000 characters, and then its first 8000 characters come first, unchanged.
C21_TruncatedAtLimit ==
    ex.pc = "returned" =>
        /\ Len(ex.result) <= 8000 + Len(TruncationMarker)
        /\ EndsWithMarker(ex.result) <=> Len(Assembled) > 8000
        /\ Len(Assembled) > 8000 =>
               ex.result = SubSeq(Assembled, 1, 8000) \o TruncationMarker
        /\ Len(Assembled) <= 8000 => ex.result = Assembled

C21_Witness ==
    /\ ex.pc = "returned"
    /\ Len(Assembled) = 8001
    /\ Len(ex.result) = 8000 + Len(TruncationMarker)

ReturnedWholeAtLimit ==
    /\ ex.pc = "returned"
    /\ Len(Assembled) = 8000
    /\ ex.result = Assembled

\* ---- C24 ----
\* the document the strategies are to see: the page without scripts and
\* without the elements that match a boilerplate pattern
Cleaned == RemoveUnwanted(ex.page)

\* the div and section elements of the cleaned document, in document order,
\* whose class or id matches a content pattern and that hold more than 200
\* characters of text
ContentContainers ==
    SelectSeq(find_all(Cleaned, {"div", "section"}),
              LAMBDA t : _is_content_element(t) /\ Len(get_text(t, "")) > 200)

FirstOrNone(elements) == IF elements = << >> THEN NoNode ELSE Head(elements)

\* what each strategy yields on the cleaned document, in the order of the chain
Yields ==
    << [element |-> FirstOrNone(find_all(Cleaned, {"article"})), method |-> "article tag"],
       [element |-> FirstOrNone(find_all(Cleaned, {"main"})), method |-> "main tag"],
       [element |-> FirstOrNone(ContentContainers), method |-> "content class/id"],
       [element |-> _find_largest_text_block(Cleaned), method |-> "largest text block"],
       [element |-> FirstOrNone(find_all(Cleaned, {"body"})), method |-> "body fallback"] >>

\* C24: the main content is what the first strategy that yields an element
\* yields, in the order article, main, content class/id, largest text block,
\* body; a later strategy counts only when every earlier one found nothing;
\* and the strategies see the document with the boilerplate elements removed.
C24_FirstStrategyWins ==
    ex.pc = "selected" =>
        /\ ex.soup = Cleaned
        /\ \A n \in Range(Flatten(<< ex.soup >>)) : ~_should_exclude_element(n)
        /\ \A k \in DOMAIN Yields :
              (Yields[k].element # NoNode /\ \A j \in 1..(k - 1) : Yields[j].element = NoNode)
                  => /\ ex.selected = Yields[k].element
                     /\ ex.extraction_method = Yields[k].method

\* the only article of the page sits in a boilerplate region: the main element
\* is selected
C24_Witness ==
    /\ ex.pc = "selected"
    /\ find(ex.page, "article") # NoNode
    /\ ex.extraction_method = "main tag"
    /\ ex.selected = find(ex.page, "main")

LaterStrategyUsed ==
    /\ ex.pc = "selected"
    /\ ex.extraction_method \in {"content class/id", "largest text block", "body fallback"}

\* ---- C25 ----
\* the containers of the cleaned document with more than 200 characters of text
ScoredContainers ==
    { c \in Range(find_all(Cleaned, {"div", "section", "article", "main"})) :
        ~_should_exclude_element(c) /\ Len(get_text(c, "")) > 200 }

\* text length x density of a is at least that of b, density being text length
\* over the number of descendant tags (one at least)
ScoreAtLeast(a, b) ==
    Len(get_text(a, "")) * Len(get_text(a, "")) * TagCount(b)
        >= Len(get_text(b, "")) * Len(get_text(b, "")) * TagCount(a)

\* strategy 4 is the one that ran
LargestBlockAsked == \A k \in 1..3 : Yields[k].element = NoNode

\* C25: when strategy 4 runs, it yields a container with more than 200
\* characters of text whose score text length x density is the greatest among
\* such containers, and nothing when there is no such container.
C25_GreatestScoreWins ==
    (ex.pc = "selected" /\ LargestBlockAsked) =>
        IF ScoredContainers = {}
        THEN ex.extraction_method = "body fallback"
        ELSE /\ ex.extraction_method = "largest text block"
             /\ ex.selected \in ScoredContainers
             /\ \A c \in ScoredContainers : ScoreAtLeast(ex.selected, c)

\* the container returned is the longest one while another container has the
\* greater score
LongestBeatsGreatestScore ==
    /\ ex.pc = "selected"
    /\ ex.extraction_method = "largest text block"
    /\ \E c \in ScoredContainers :
          /\ ~ScoreAtLeast(ex.selected, c)
          /\ Len(get_text(ex.selected, "")) > Len(get_text(c, ""))

\* a container of exactly 200 characters is returned
ReturnedAtTwoHundred ==
    /\ ex.pc = "selected"
    /\ ex.extraction_method = "largest text block"
    /\ Len(get_text(ex.selected, "")) = 200

\* ---- C22 ----
\* C22: once a submission is stored, its fields change only in steps of the
\* approve, reject and regenerate-image operations, and it stays stored.
C22_OnlyReviewAndRegenerateMutate ==
    [][ \A id \in DOMAIN db :
          /\ id \in DOMAIN db'
          /\ db'[id] # db[id] =>
                http'.handler \in {"approve_submission", "reject_submission", "regenerate_image"}
      ]_vars

\* ---- C28 ----
Statuses == { "pending_review", "approved", "rejected" }

ApproveStep(id) ==
    /\ \E edited_post \in EditedPosts : ApproveSubmission(id, edited_post)
    /\ UNCHANGED << classifyVars, fetchVars, researchVars, writingVars, veoVars, extractVars, chartVars >>

RejectStep(id) ==
    /\ RejectSubmission(id)
    /\ UNCHANGED << classifyVars, fetchVars, researchVars, writingVars, veoVars, extractVars, chartVars >>

\* C28: a submission is stored with status pending_review, its status is
\* always one of pending_review, approved, rejected, and whatever the status
\* is, approve can be taken and leads to approved and reject can be taken and
\* leads to rejected.
C28_ReviewUnguarded ==
    /\ [](\A id \in DOMAIN db :
            /\ db[id].status \in Statuses
            /\ ENABLED (ApproveStep(id) /\ http'.status = 200 /\ db'[id].status = "approved")
            /\ ENABLED (RejectStep(id) /\ http'.status = 200 /\ db'[id].status = "rejected"))
    /\ [][ /\ \A id \in DOMAIN db' \ DOMAIN db : db'[id].status = "pending_review"
           /\ \A id \in DOMAIN db :
                 /\ (http'.handler = "approve_submission" /\ http'.status = 200 /\ http'.id = id)
                       => db'[id].status = "approved"
                 /\ (http'.handler = "reject_submission" /\ http'.status = 200 /\ http'.id = id)
                       => db'[id].status = "rejected"
         ]_vars

\* a submission that was approved with an edited post, then rejected
C28_Witness ==
    /\ http.handler = "reject_submission" /\ http.status = 200
    /\ db[http.id].status = "rejected"
    /\ db[http.id].ai_draft \in EditedPosts

\* ---- C26 ----
\* C26: in a step of the regenerate-image endpoint, a regeneration that
\* returns None is answered with an HTTP error and the stored submissions stay
\* as they were; a stored graphic_data is replaced only by the non-empty result
\* of the regeneration, nothing else of the row changing; and a request for a
\* missing submission, or one without graphic type or description, is
\* rejected with no generation backend called.
C26_RegenerateFailsClosed ==
    [][ http'.handler = "regenerate_image" =>
          /\ (gg'.done /\ gg'.run.result = None) => (http'.status >= 400 /\ db' = db)
          /\ http'.status >= 400 => db' = db
          /\ db' # db =>
                /\ http'.status = 200 /\ http'.id \in DOMAIN db /\ gg'.done
                /\ TruthyStr(gg'.run.result) /\ ~Raised(gg'.run.result)
                /\ db' = [db EXCEPT ![http'.id].graphic_data = gg'.run.result]
          /\ (\/ http'.id \notin DOMAIN db
              \/ ~TruthyStr(db[http'.id].graphic_type)
              \/ ~TruthyStr(db[http'.id].graphic_description))
                => /\ http'.status \in {400, 404}
                   /\ ~gg'.done /\ gg'.run.calls = << >>
                   /\ db' = db
      ]_vars

\* a regeneration that returned None, answered with status 500
C26_Witness ==
    /\ http.handler = "regenerate_image" /\ http.status = 500
    /\ gg.done /\ gg.run.result = None
    /\ db[http.id].graphic_data # None

\* ---- C29 ----
\* C29: regenerate_with_feedback hands the router neither chart_data nor
\* research data, no backend receives research data, and a chart or diagram
\* regenerated with feedback carries the illustrative-data disclaimer
\* instruction, whatever data the original submission was generated from.
C29_RegenerationIsIllustrative ==
    (http.handler = "regenerate_image" /\ gg.done) =>
        /\ gg.chart_data = None
        /\ gg.research_data = NoResearch
        /\ \A i \in DOMAIN gg.run.calls : gg.run.calls[i].research_data = NoResearch
        /\ gg.run.resolved \in {"chart", "diagram"} =>
              /\ gg.run.prompt.built
              /\ IsSubstring("(Illustrative example data)", gg.run.prompt.subtitle_instruction)

\* the submission was generated as a chart from the data points of the form
\* and research facts; its regeneration is a chart with the disclaimer
C29_Witness ==
    /\ http.handler = "regenerate_image" /\ http.status = 200 /\ gg.done
    /\ db[http.id].graphic_type = "chart"
    /\ db[http.id].research_urls = Research(<< R_stat >>)
    /\ gg.run.resolved = "chart"
    /\ IsSubstring("(Illustrative example data)", gg.run.prompt.subtitle_instruction)

\* ---- C27 ----
\* C27: between calls of generate_chart no figure is open, and the image a
\* call renders holds only what the code of that call drew.
C27_NoPlottingStateLeft ==
    /\ plt.pc = "idle" => plt.figs = << >>
    /\ \A i \in DOMAIN plt.image.marks : plt.image.marks[i] = plt.calls

\* a call whose code raised after opening a figure has returned, and the
\* figure is still open
FigureLeftOpen ==
    /\ plt.pc = "idle"
    /\ plt.image.source = "dalle"
    /\ \E i \in DOMAIN plt.figs : plt.figs[i].owner = plt.calls

\* the image of a call shows what the code of an earlier call drew
EarlierDrawingRendered ==
    /\ plt.pc = "idle"
    /\ plt.image.source = "figure"
    /\ \E i \in DOMAIN plt.image.marks : plt.image.marks[i] < plt.calls

=============================================================================
